---- MODULE Spec2Model ----
(***************************************************************************)
(* Model of the marble ingestion / retrieval core:                         *)
(*   - the chunker (buildLineOffsets, locateLine, chunkText),              *)
(*   - the vector store adapter (upsertChunkVector, deleteChunkVectors,    *)
(*     queryNamespace) over the two index generations,                     *)
(*   - the ingestion and file-deletion handlers, step by step.             *)
(* Strings are sequences of one-character strings; offsets are 0-based as  *)
(* in the source, sequences are 1-based as in TLA+.                        *)
(***************************************************************************)
EXTENDS Integers, Sequences, FiniteSets, TLC

NL == "\n"

\* ---------------------------------------------------------------- bounds
MaxLen == 4
MaxChunkSize == 3
MaxOverlap == 3
LoopSlack == 2
MaxCalls == 2
TopK == 2
MaxScore == 2
\* CHUNK_SIZE / CHUNK_OVERLAP of the environment (0 <= overlap < size)
CHUNK_SIZE == 3
CHUNK_OVERLAP == 1

Alphabet == {"a", "b", NL}

SeqsUpTo(n) == UNION {[1..k -> Alphabet] : k \in 0..n}

\* "Line one\nLine two\nLine three"
LineExample ==
  <<"L","i","n","e"," ","o","n","e",NL,
    "L","i","n","e"," ","t","w","o",NL,
    "L","i","n","e"," ","t","h","r","e","e">>

\* the chunkText call of the documented example: chunkSize 9, overlap 2
ExampleInput == <<LineExample, 9, 2>>

\* Number.MAX_SAFE_INTEGER (2^53 - 1) exceeds TLC's integers; the largest TLC
\* integer plays its part: it is above every character offset.
MAX_SAFE_INTEGER == 2147483647

\* ------------------------------------------------------- string helpers
Min(a, b) == IF a < b THEN a ELSE b
Max(a, b) == IF a > b THEN a ELSE b

\* source.slice(from, to) with 0 <= from, to (0-based, end exclusive)
Slice(source, from, to) ==
  LET t == Min(to, Len(source))
  IN IF from >= t THEN <<>> ELSE SubSeq(source, from + 1, t)

\* ------------------------------------------------------------- chunker
RECURSIVE BuildLineOffsetsFrom(_, _, _)
BuildLineOffsetsFrom(source, i, offsets) ==
  IF i >= Len(source) THEN offsets
  ELSE IF source[i + 1] = NL
       THEN BuildLineOffsetsFrom(source, i + 1, Append(offsets, i + 1))
       ELSE BuildLineOffsetsFrom(source, i + 1, offsets)

BuildLineOffsetsShifted(source) ==
  LET offs == BuildLineOffsetsFrom(source, 0, <<0>>)
  IN [k \in 1..Len(offs) |-> IF k = 1 THEN 0 ELSE offs[k] - 1]

buildLineOffsets(source) == BuildLineOffsetsFrom(source, 0, <<0>>)

RECURSIVE LocateLoop(_, _, _, _)
LocateLoop(offsets, charIndex, low, high) ==
  IF low > high THEN Len(offsets)
  ELSE LET mid == (low + high) \div 2
           start == offsets[mid + 1]
           nextStart == IF mid + 1 < Len(offsets) THEN offsets[mid + 2]
                        ELSE MAX_SAFE_INTEGER
       IN IF charIndex < start THEN LocateLoop(offsets, charIndex, low, mid - 1)
          ELSE IF charIndex >= nextStart
               THEN LocateLoop(offsets, charIndex, mid + 1, high)
               ELSE mid + 1

RECURSIVE LocateLoopZeroBased(_, _, _, _)
LocateLoopZeroBased(offsets, charIndex, low, high) ==
  IF low > high THEN Len(offsets)
  ELSE LET mid == (low + high) \div 2
           start == offsets[mid + 1]
           nextStart == IF mid + 1 < Len(offsets) THEN offsets[mid + 2]
                        ELSE MAX_SAFE_INTEGER
       IN IF charIndex < start
          THEN LocateLoopZeroBased(offsets, charIndex, low, mid - 1)
          ELSE IF charIndex >= nextStart
               THEN LocateLoopZeroBased(offsets, charIndex, mid + 1, high)
               ELSE mid

locateLineZeroBased(offsets, charIndex) ==
  LocateLoopZeroBased(offsets, charIndex, 0, Len(offsets) - 1)

locateLine(offsets, charIndex) ==
  LocateLoop(offsets, charIndex, 0, Len(offsets) - 1)

\* end of the window that starts at position
WindowEnd(source, position, chunkSize) == Min(Len(source), position + chunkSize)

\* the TextChunk pushed by one iteration of the loop of chunkText
ChunkAtTruncated(source, offsets, position, chunkSize, index) ==
  LET end == WindowEnd(source, position, chunkSize)
      lastCharIndex == IF end > position THEN end - 1 ELSE position
  IN [content |-> Slice(source, position, end - 1),
      startLine |-> locateLine(offsets, position),
      endLine |-> locateLine(offsets, lastCharIndex),
      index |-> index]

ChunkAt(source, offsets, position, chunkSize, index) ==
  LET end == WindowEnd(source, position, chunkSize)
      lastCharIndex == IF end > position THEN end - 1 ELSE position
  IN [content |-> Slice(source, position, end),
      startLine |-> locateLine(offsets, position),
      endLine |-> locateLine(offsets, lastCharIndex),
      index |-> index]

NextPositionSkipping(end, overlap) == Max(0, end - overlap + 1)

NextPosition(end, overlap) == Max(0, end - overlap)

\* chunkText as a function, for callers that pass 0 <= overlap < chunkSize
RECURSIVE ChunkTextFrom(_, _, _, _, _, _, _)
ChunkTextFrom(source, offsets, chunkSize, overlap, position, index, acc) ==
  IF position >= Len(source) THEN acc
  ELSE LET end == WindowEnd(source, position, chunkSize)
           pushed == Append(acc, ChunkAt(source, offsets, position, chunkSize, index))
       IN IF end = Len(source) THEN pushed
          ELSE ChunkTextFrom(source, offsets, chunkSize, overlap,
                             NextPosition(end, overlap), index + 1, pushed)

ChunkText(source, chunkSize, overlap) ==
  ChunkTextFrom(source, buildLineOffsets(source), chunkSize, overlap, 0, 0, <<>>)

\* ------------------------------------------------------------- state
VARIABLES
  \* one call of chunkText, statement by statement
  source, chunkSize, overlap, offsets, position, index, end, chunks, cpc

chunkVars == <<source, chunkSize, overlap, offsets, position, index, end, chunks, cpc>>

VARIABLES
  gen,         \* generation of the bound vector index: "A" (namespaced) or "B"
  files,       \* table files: file id -> row, or NoFile
  blobs,       \* blob store: file id (its r2_key) -> text, or NoBlob
  chunkTable,  \* table chunks: set of ChunkRecords
  vectors,     \* the vector index: set of [ns, id, metadata]
  nextId,      \* crypto.randomUUID(): next fresh id
  started,     \* number of requests started so far
  call         \* the requests in flight: slot -> call frame

storeVars == <<gen, files, blobs, chunkTable, vectors, nextId, started, call>>

VARIABLES
  chat,        \* one handleChat request: its inputs, position and locals
  messages     \* table messages: the chat records, in insertion order

chatVars == <<chat, messages>>

vars == <<chunkVars, storeVars, chatVars>>

\* ---------------------------------------------------- the stored world
Users == {"u1", "u2"}
Files == {"f1", "f2"}
Calls == {1, 2}

NoFile == [id |-> "none"]
NoBlob == <<"absent">>

\* the rows of table files: f1 belongs to u1, f2 to u2
FileOwner(f) == IF f = "f1" THEN "u1" ELSE "u2"

\* the uploaded texts (two chunks for f1, one chunk for f2 under the
\* configured chunk size)
FileText(f) == IF f = "f1" THEN <<"a", NL, "b", "c", NL>> ELSE <<"a", "b">>

\* f1 is private to u1, f2 is public
FileVisibility(f) == IF f = "f1" THEN "private" ELSE "public"

FileRow(f) ==
  [id |-> f, owner_id |-> FileOwner(f), visibility |-> FileVisibility(f),
   status |-> "uploading"]

IdleCall ==
  [kind |-> "none", pc |-> "idle", user |-> "none", file |-> "none",
   frec |-> NoFile, ns |-> "", chs |-> <<>>, nEmb |-> 0, existing |-> {},
   i |-> 0, chunkId |-> 0, written |-> {}, upserts |-> 0, ops |-> <<>>,
   status |-> 0, err |-> "", matches |-> {}, queries |-> 0, overlapped |-> FALSE,
   rows |-> {}, prev |-> {}, stale |-> FALSE, delAt |-> 0, allOk |-> TRUE,
   retryOf |-> ""]

\* no chat request yet
NoChat == [pc |-> "idle"]

ChatIdle == chat = NoChat /\ messages = <<>>

\* nothing stored, no request in flight
StoreIdle ==
  /\ ChatIdle
  /\ gen = "A"
  /\ files = [f \in Files |-> NoFile]
  /\ blobs = [f \in Files |-> NoBlob]
  /\ chunkTable = {}
  /\ vectors = {}
  /\ nextId = 1
  /\ started = 0
  /\ call = [c \in Calls |-> IdleCall]

\* ------------------------------------------------- chunkText, stepwise
ChunkInputs ==
  (SeqsUpTo(MaxLen) \X (0..MaxChunkSize) \X (0..MaxOverlap))
    \cup {ExampleInput}

InitChunk ==
  /\ \E inp \in ChunkInputs :
       /\ source = inp[1]
       /\ chunkSize = inp[2]
       /\ overlap = inp[3]
  /\ offsets = <<>>
  /\ position = 0
  /\ index = 0
  /\ end = 0
  /\ chunks = <<>>
  /\ cpc = "call"
  /\ StoreIdle

\* lines 242-249: the chunkSize guard and the loop's initialisation
ChunkCall ==
  /\ cpc = "call"
  /\ IF chunkSize <= 0
     THEN /\ cpc' = "threw"
          /\ UNCHANGED offsets
     ELSE /\ cpc' = "loop"
          /\ offsets' = buildLineOffsets(source)
  /\ UNCHANGED <<source, chunkSize, overlap, position, index, end, chunks>>
  /\ UNCHANGED storeVars
  /\ UNCHANGED chatVars

\* lines 250-270: one iteration of the loop
ChunkIter ==
  /\ cpc = "loop"
  /\ position < Len(source)
  /\ Len(chunks) < Len(source) + LoopSlack
  /\ end' = WindowEnd(source, position, chunkSize)
  /\ chunks' = Append(chunks, ChunkAt(source, offsets, position, chunkSize, index))
  /\ IF end' = Len(source)
     THEN /\ cpc' = "returned"
          /\ UNCHANGED <<position, index>>
     ELSE /\ position' = NextPosition(end', overlap)
          /\ index' = index + 1
          /\ cpc' = "loop"
  /\ UNCHANGED <<source, chunkSize, overlap, offsets>>
  /\ UNCHANGED storeVars
  /\ UNCHANGED chatVars

\* line 250: the loop condition fails
ChunkLoopExit ==
  /\ cpc = "loop"
  /\ position >= Len(source)
  /\ cpc' = "returned"
  /\ UNCHANGED <<source, chunkSize, overlap, offsets, position, index, end, chunks>>
  /\ UNCHANGED storeVars
  /\ UNCHANGED chatVars

NextChunk == ChunkCall \/ ChunkIter \/ ChunkLoopExit

SpecChunk == InitChunk /\ [][NextChunk]_vars

\* ------------------------------------------------ vector store adapter
GlobalNs == ""

publicNamespace == "public"

privateNamespace(ownerId) == "user:" \o ownerId

partitionForVisibility(visibility, ownerId) ==
  IF visibility = "public" THEN "public" ELSE "user:" \o ownerId

Namespaces == {publicNamespace} \cup {privateNamespace(u) : u \in Users}

\* the namespaces queryNamespace is called with: those above and one that is
\* neither 'public' nor 'user:...'
OtherNamespace == "shared"

QueryNamespaces == Namespaces \cup {OtherNamespace}

\* isV2(binding): the bound index is of generation B
isV2 == gen = "B"

\* the metadata filter of a namespace; <<>> is the empty filter {}
filterFromNamespace(ns) ==
  IF ns = "public" THEN [visibility |-> "public"]
  ELSE IF \E u \in Users : ns = "user:" \o u
       THEN [visibility |-> "private",
             ownerId |-> CHOOSE u \in Users : ns = "user:" \o u]
       ELSE <<>>

\* the index itself (external): upsert, delete by ids, query
IndexUpsert(vs, ns, id, metadata) ==
  {v \in vs : ~(v.ns = ns /\ v.id = id)} \cup {[ns |-> ns, id |-> id, metadata |-> metadata]}

IndexDelete(vs, ns, ids) == {v \in vs : ~(v.ns = ns /\ v.id \in ids)}

MatchesFilter(metadata, filter) == \A k \in DOMAIN filter : metadata[k] = filter[k]

\* the possible answers of the index: topK of the candidate vectors
TopKOf(cands) ==
  {ms \in SUBSET cands : Cardinality(ms) = Min(TopK, Cardinality(cands))}

\* a raw match of the index: the stored vector and its similarity score
WithScore(v, s) == [id |-> v.id, ns |-> v.ns, metadata |-> v.metadata, score |-> s]

\* buildMatch(raw) for a raw match that carries its metadata
buildMatch(raw) ==
  [chunkId |-> raw.metadata.chunkId, score |-> raw.score,
   fileId |-> raw.metadata.fileId,
   startLine |-> raw.metadata.startLine, endLine |-> raw.metadata.endLine,
   visibility |-> raw.metadata.visibility, ownerId |-> raw.metadata.ownerId]

\* upsertChunkVector: one vector, namespaced on generation A
Upserted(vs, chunkId, metadata) ==
  IF isV2 THEN IndexUpsert(vs, GlobalNs, chunkId, metadata)
  ELSE IndexUpsert(vs, partitionForVisibility(metadata.visibility, metadata.ownerId),
                   chunkId, metadata)

\* deleteChunkVectors that ignores the owner on generation A
VectorsDeletedFromPublic(vs, chunkIds, visibility, ownerId) ==
  IF chunkIds = {} THEN vs
  ELSE IF isV2 THEN IndexDelete(vs, GlobalNs, chunkIds)
       ELSE IndexDelete(vs, publicNamespace, chunkIds)

\* deleteChunkVectors: by id on generation B, inside the namespace on A
VectorsDeleted(vs, chunkIds, visibility, ownerId) ==
  IF chunkIds = {} THEN vs
  ELSE IF isV2 THEN IndexDelete(vs, GlobalNs, chunkIds)
       ELSE IndexDelete(vs, partitionForVisibility(visibility, ownerId), chunkIds)

\* ------------------------------------------------------ call frames
Running(c) == call[c].pc \notin {"idle", "done", "failed"}

Conflicts(c, kind, f) ==
  {d \in Calls \ {c} : Running(d) /\ call[d].kind \in {"ingest", "delete"}
                        /\ kind \in {"ingest", "delete"} /\ call[d].file = f}

\* the request that last used slot c was an ingestion of f that succeeded with
\* no other request on f in flight, and no request on f has started since
Settled(c, f) ==
  /\ call[c].kind = "ingest" /\ call[c].pc = "done" /\ call[c].file = f
  /\ ~call[c].overlapped /\ ~call[c].stale

\* the request that last used slot c was an ingestion of f that failed with
\* no other request on f in flight, and no request on f has started since
FailedAlone(c, f) ==
  /\ call[c].kind = "ingest" /\ call[c].pc = "failed" /\ call[c].file = f
  /\ ~call[c].overlapped /\ ~call[c].stale

\* a request enters slot c, the first free slot; requests on the same file
\* that are in flight are marked as overlapping, finished ones as stale; an
\* ingestion that follows a settled ingestion of the same file remembers the
\* rows that one wrote, an ingestion that follows a failed ingestion of the
\* same file remembers the statement that one failed at, and every request
\* remembers whether all requests that used its slot before it succeeded
Begin(c, kind, u, f, ns, pc) ==
  /\ ~Running(c)
  /\ \A d \in Calls : d < c => Running(d)
  /\ started < MaxCalls
  /\ started' = started + 1
  /\ call' = [d \in Calls |->
       IF d = c
       THEN [IdleCall EXCEPT !.kind = kind, !.pc = pc, !.user = u, !.file = f,
                             !.ns = ns, !.overlapped = Conflicts(c, kind, f) # {},
                             !.prev = IF kind = "ingest" /\ Settled(c, f)
                                      THEN call[c].rows ELSE {},
                             !.allOk = \/ call[c].pc = "idle"
                                       \/ call[c].pc = "done" /\ call[c].allOk,
                             !.retryOf = IF kind = "ingest" /\ FailedAlone(c, f)
                                         THEN call[c].ops[Len(call[c].ops)]
                                         ELSE ""]
       ELSE IF d \in Conflicts(c, kind, f)
            THEN [call[d] EXCEPT !.overlapped = TRUE]
            ELSE IF kind \in {"ingest", "delete"} /\ call[d].file = f
                 THEN [call[d] EXCEPT !.stale = TRUE]
                 ELSE call[d]]

\* the frame after the step named op
Step(c, op, pc) == [call[c] EXCEPT !.ops = Append(@, op), !.pc = pc]

\* the frame after op threw: the request ends with an HTTP status
Thrown(c, op, status, err) ==
  [call[c] EXCEPT !.ops = Append(@, op), !.pc = "failed", !.status = status, !.err = err]

SetCall(c, frame) == call' = [call EXCEPT ![c] = frame]

\* ------------------------------------------------------ handleIngest
StartIngest(c) ==
  /\ \E u \in Users, f \in Files : Begin(c, "ingest", u, f, "", "getFile")
  /\ UNCHANGED <<gen, files, blobs, chunkTable, vectors, nextId>>

\* getFile and the ownership check
IngestGetFileNoOwnerCheck(c) ==
  /\ call[c].kind = "ingest" /\ call[c].pc = "getFile"
  /\ LET file == files[call[c].file]
     IN IF file = NoFile
        THEN SetCall(c, Thrown(c, "getFile", 404, "NotFound"))
        ELSE SetCall(c, [Step(c, "getFile", "getObject") EXCEPT !.frec = file])
  /\ UNCHANGED <<gen, files, blobs, chunkTable, vectors, nextId, started>>

IngestGetFile(c) ==
  /\ call[c].kind = "ingest" /\ call[c].pc = "getFile"
  /\ LET file == files[call[c].file]
     IN IF file = NoFile
        THEN SetCall(c, Thrown(c, "getFile", 404, "NotFound"))
        ELSE IF file.owner_id # call[c].user
             THEN SetCall(c, Thrown(c, "getFile", 403, "Forbidden"))
             ELSE SetCall(c, [Step(c, "getFile", "getObject") EXCEPT !.frec = file])
  /\ UNCHANGED <<gen, files, blobs, chunkTable, vectors, nextId, started>>

\* the same without the test on chunks.length
IngestGetObjectNoEmptyCheck(c) ==
  /\ call[c].kind = "ingest" /\ call[c].pc = "getObject"
  /\ LET object == blobs[call[c].file]
         chs == ChunkText(object, CHUNK_SIZE, CHUNK_OVERLAP)
     IN IF object = NoBlob
        THEN SetCall(c, Thrown(c, "getObject", 404, "NotFound"))
        ELSE SetCall(c, [Step(c, "getObject", "embed") EXCEPT !.chs = chs])
  /\ UNCHANGED <<gen, files, blobs, chunkTable, vectors, nextId, started>>

\* MARBLE_FILES.get, object.text(), chunkText
IngestGetObject(c) ==
  /\ call[c].kind = "ingest" /\ call[c].pc = "getObject"
  /\ LET object == blobs[call[c].file]
         chs == ChunkText(object, CHUNK_SIZE, CHUNK_OVERLAP)
     IN IF object = NoBlob
        THEN SetCall(c, Thrown(c, "getObject", 404, "NotFound"))
        ELSE IF Len(chs) = 0
             THEN SetCall(c, Thrown(c, "getObject", 400, "NoContent"))
             ELSE SetCall(c, [Step(c, "getObject", "embed") EXCEPT !.chs = chs])
  /\ UNCHANGED <<gen, files, blobs, chunkTable, vectors, nextId, started>>

\* what the embedding provider may do for n inputs: fail with a non-2xx
\* answer, fail otherwise (network), or answer with k vectors
EmbedOutcomes(n) ==
  {[res |-> "non2xx", n |-> 0], [res |-> "network", n |-> 0]}
    \cup {[res |-> "vectors", n |-> k] : k \in {j \in (n - 1)..(n + 1) : j >= 0}}

\* the frame after createEmbeddings, normalizeEmbeddings and the count check
EmbeddedNoCountCheck(c, out) ==
  IF out.res = "non2xx" THEN Thrown(c, "embed", 502, "ProviderError")
  ELSE IF out.res = "network" THEN Thrown(c, "embed", 500, "EmbedFailed")
  ELSE IF out.n = 0 THEN Thrown(c, "embed", 500, "ParseFailed")
  ELSE [Step(c, "embed", "selectChunks") EXCEPT !.nEmb = out.n]

EmbeddedSwallowingError(c, out) ==
  IF out.res \in {"non2xx", "network"} THEN Step(c, "embed", "selectChunks")
  ELSE IF out.n = 0 THEN Thrown(c, "embed", 500, "ParseFailed")
  ELSE IF out.n # Len(call[c].chs)
       THEN [Thrown(c, "embed", 500, "CountMismatch") EXCEPT !.nEmb = out.n]
       ELSE [Step(c, "embed", "selectChunks") EXCEPT !.nEmb = out.n]

Embedded(c, out) ==
  IF out.res = "non2xx" THEN Thrown(c, "embed", 502, "ProviderError")
  ELSE IF out.res = "network" THEN Thrown(c, "embed", 500, "EmbedFailed")
  ELSE IF out.n = 0 THEN Thrown(c, "embed", 500, "ParseFailed")
  ELSE IF out.n # Len(call[c].chs)
       THEN [Thrown(c, "embed", 500, "CountMismatch") EXCEPT !.nEmb = out.n]
       ELSE [Step(c, "embed", "selectChunks") EXCEPT !.nEmb = out.n]

IngestEmbed(c) ==
  /\ call[c].kind = "ingest" /\ call[c].pc = "embed"
  /\ \E out \in EmbedOutcomes(Len(call[c].chs)) : SetCall(c, Embedded(c, out))
  /\ UNCHANGED <<gen, files, blobs, chunkTable, vectors, nextId, started>>

\* deleteChunksForFile, first statement: SELECT id FROM chunks
SelectChunks(c, kind, nextPc) ==
  /\ call[c].kind = kind /\ call[c].pc = "selectChunks"
  /\ \E ok \in BOOLEAN :
       IF ok
       THEN SetCall(c, [Step(c, "selectChunks", nextPc) EXCEPT
              !.existing = {r.id : r \in {x \in chunkTable : x.file_id = call[c].file}}])
       ELSE SetCall(c, Thrown(c, "selectChunks", 500, "DbError"))
  /\ UNCHANGED <<gen, files, blobs, chunkTable, vectors, nextId, started>>

IngestSelectChunks(c) == SelectChunks(c, "ingest", "deleteChunks")

IngestDeleteChunksSkipped(c) ==
  /\ call[c].kind = "ingest" /\ call[c].pc = "deleteChunks"
  /\ SetCall(c, [Step(c, "deleteChunks",
       IF call[c].existing # {} THEN "deleteVectors" ELSE "insertChunk")
       EXCEPT !.delAt = nextId])
  /\ UNCHANGED <<gen, files, blobs, chunkTable, vectors, nextId, started>>

\* deleteChunksForFile, second statement: DELETE FROM chunks (the frame notes
\* how many ids had been drawn when the statement ran)
IngestDeleteChunks(c) ==
  /\ call[c].kind = "ingest" /\ call[c].pc = "deleteChunks"
  /\ \E ok \in BOOLEAN :
       IF ok
       THEN /\ chunkTable' = {r \in chunkTable : r.file_id # call[c].file}
            /\ SetCall(c, [Step(c, "deleteChunks",
                 IF call[c].existing # {} THEN "deleteVectors" ELSE "insertChunk")
                 EXCEPT !.delAt = nextId])
       ELSE /\ UNCHANGED chunkTable
            /\ SetCall(c, Thrown(c, "deleteChunks", 500, "DbError"))
  /\ UNCHANGED <<gen, files, blobs, vectors, nextId, started>>

\* deleteChunkVectors(existing, file.visibility, file.owner_id)
IngestDeleteVectors(c) ==
  /\ call[c].kind = "ingest" /\ call[c].pc = "deleteVectors"
  /\ \E ok \in BOOLEAN :
       IF ok
       THEN /\ vectors' = VectorsDeleted(vectors, call[c].existing,
                            call[c].frec.visibility, call[c].frec.owner_id)
            /\ SetCall(c, Step(c, "deleteVectors", "insertChunk"))
       ELSE /\ UNCHANGED vectors
            /\ SetCall(c, Thrown(c, "deleteVectors", 500, "IndexError"))
  /\ UNCHANGED <<gen, files, blobs, chunkTable, nextId, started>>

\* the ChunkRecord numbered from one
ChunkRowIndexFromOne(c, chunkId) ==
  LET chunk == call[c].chs[call[c].i + 1]
  IN [id |-> chunkId, file_id |-> call[c].frec.id, owner_id |-> call[c].frec.owner_id,
      visibility |-> call[c].frec.visibility, chunk_index |-> call[c].i + 1,
      start_line |-> chunk.startLine, end_line |-> chunk.endLine,
      content |-> chunk.content]

\* the ChunkRecord of chunk number i (0-based) of the call
ChunkRow(c, chunkId) ==
  LET chunk == call[c].chs[call[c].i + 1]
  IN [id |-> chunkId, file_id |-> call[c].frec.id, owner_id |-> call[c].frec.owner_id,
      visibility |-> call[c].frec.visibility, chunk_index |-> call[c].i,
      start_line |-> chunk.startLine, end_line |-> chunk.endLine,
      content |-> chunk.content]

\* the VectorMetadata of chunk number i of the call
ChunkMetadata(c, chunkId) ==
  LET chunk == call[c].chs[call[c].i + 1]
  IN [chunkId |-> chunkId, fileId |-> call[c].frec.id,
      startLine |-> chunk.startLine, endLine |-> chunk.endLine,
      visibility |-> call[c].frec.visibility, ownerId |-> call[c].frec.owner_id]

\* insertChunk with an id derived from the chunk's position
IngestInsertChunkReusingId(c) ==
  /\ call[c].kind = "ingest" /\ call[c].pc = "insertChunk"
  /\ nextId' = nextId + 1
  /\ \E ok \in BOOLEAN :
       IF ok
       THEN /\ chunkTable' = chunkTable \cup {ChunkRow(c, call[c].i + 1)}
            /\ SetCall(c, [Step(c, "insertChunk", "upsert") EXCEPT
                 !.chunkId = call[c].i + 1, !.written = @ \cup {call[c].i + 1},
                 !.rows = @ \cup {ChunkRow(c, call[c].i + 1)}])
       ELSE /\ UNCHANGED chunkTable
            /\ SetCall(c, Thrown(c, "insertChunk", 500, "DbError"))
  /\ UNCHANGED <<gen, files, blobs, vectors, started>>

\* insertChunk as INSERT OR REPLACE on (file_id, chunk_index)
IngestInsertChunkReplacingIndex(c) ==
  /\ call[c].kind = "ingest" /\ call[c].pc = "insertChunk"
  /\ nextId' = nextId + 1
  /\ \E ok \in BOOLEAN :
       IF ok
       THEN /\ chunkTable' =
                 {r \in chunkTable : ~(/\ r.file_id = call[c].file
                                        /\ r.chunk_index = call[c].i)}
                   \cup {ChunkRow(c, nextId)}
            /\ SetCall(c, [Step(c, "insertChunk", "upsert") EXCEPT
                 !.chunkId = nextId, !.written = @ \cup {nextId},
                 !.rows = @ \cup {ChunkRow(c, nextId)}])
       ELSE /\ UNCHANGED chunkTable
            /\ SetCall(c, Thrown(c, "insertChunk", 500, "DbError"))
  /\ UNCHANGED <<gen, files, blobs, vectors, started>>

\* crypto.randomUUID() and insertChunk
IngestInsertChunk(c) ==
  /\ call[c].kind = "ingest" /\ call[c].pc = "insertChunk"
  /\ nextId' = nextId + 1
  /\ \E ok \in BOOLEAN :
       IF ok
       THEN /\ chunkTable' = chunkTable \cup {ChunkRow(c, nextId)}
            /\ SetCall(c, [Step(c, "insertChunk", "upsert") EXCEPT
                 !.chunkId = nextId, !.written = @ \cup {nextId},
                 !.rows = @ \cup {ChunkRow(c, nextId)}])
       ELSE /\ UNCHANGED chunkTable
            /\ SetCall(c, Thrown(c, "insertChunk", 500, "DbError"))
  /\ UNCHANGED <<gen, files, blobs, vectors, started>>

\* the same with a catch block that logs and does not rethrow
IngestUpsertSwallowingError(c) ==
  /\ call[c].kind = "ingest" /\ call[c].pc = "upsert"
  /\ \E ok \in BOOLEAN :
       /\ vectors' = IF ok THEN Upserted(vectors, call[c].chunkId,
                                         ChunkMetadata(c, call[c].chunkId))
                     ELSE vectors
       /\ SetCall(c, [Step(c, "upsert",
                        IF call[c].i + 1 < Len(call[c].chs) THEN "insertChunk"
                        ELSE "updateStatus")
            EXCEPT !.i = @ + 1, !.upserts = IF ok THEN @ + 1 ELSE @])
  /\ UNCHANGED <<gen, files, blobs, chunkTable, nextId, started>>

\* upsertChunkVector, then the loop's increment and test
IngestUpsert(c) ==
  /\ call[c].kind = "ingest" /\ call[c].pc = "upsert"
  /\ \E ok \in BOOLEAN :
       IF ok
       THEN /\ vectors' = Upserted(vectors, call[c].chunkId, ChunkMetadata(c, call[c].chunkId))
            /\ SetCall(c, [Step(c, "upsert",
                             IF call[c].i + 1 < Len(call[c].chs) THEN "insertChunk"
                             ELSE "updateStatus")
                 EXCEPT !.i = @ + 1, !.upserts = @ + 1])
       ELSE /\ UNCHANGED vectors
            /\ SetCall(c, Thrown(c, "upsert", 500, "IndexError"))
  /\ UNCHANGED <<gen, files, blobs, chunkTable, nextId, started>>

\* updateFileStatus(file.id, 'ready') and the response {chunks: insertedChunks}
IngestUpdateStatus(c) ==
  /\ call[c].kind = "ingest" /\ call[c].pc = "updateStatus"
  /\ \E ok \in BOOLEAN :
       IF ok
       THEN /\ files' = [files EXCEPT ![call[c].file] =
                           IF @ = NoFile THEN @ ELSE [@ EXCEPT !.status = "ready"]]
            /\ SetCall(c, [Step(c, "updateStatus", "done") EXCEPT !.status = 200])
       ELSE /\ UNCHANGED files
            /\ SetCall(c, Thrown(c, "updateStatus", 500, "DbError"))
  /\ UNCHANGED <<gen, blobs, chunkTable, vectors, nextId, started>>

\* --------------------------------------------------- handleDeleteFile
StartDelete(c) ==
  /\ \E u \in Users, f \in Files : Begin(c, "delete", u, f, "", "getFile")
  /\ UNCHANGED <<gen, files, blobs, chunkTable, vectors, nextId>>

DeleteGetFile(c) ==
  /\ call[c].kind = "delete" /\ call[c].pc = "getFile"
  /\ LET file == files[call[c].file]
     IN IF file = NoFile
        THEN SetCall(c, Thrown(c, "getFile", 404, "NotFound"))
        ELSE IF file.owner_id # call[c].user
             THEN SetCall(c, Thrown(c, "getFile", 403, "Forbidden"))
             ELSE SetCall(c, [Step(c, "getFile", "deleteObject") EXCEPT !.frec = file])
  /\ UNCHANGED <<gen, files, blobs, chunkTable, vectors, nextId, started>>

\* MARBLE_FILES.delete(file.r2_key)
DeleteObject(c) ==
  /\ call[c].kind = "delete" /\ call[c].pc = "deleteObject"
  /\ blobs' = [blobs EXCEPT ![call[c].file] = NoBlob]
  /\ SetCall(c, Step(c, "deleteObject", "selectChunks"))
  /\ UNCHANGED <<gen, files, chunkTable, vectors, nextId, started>>

DeleteSelectChunks(c) == SelectChunks(c, "delete", "deleteChunks")

DeleteDeleteChunks(c) ==
  /\ call[c].kind = "delete" /\ call[c].pc = "deleteChunks"
  /\ chunkTable' = {r \in chunkTable : r.file_id # call[c].file}
  /\ SetCall(c, Step(c, "deleteChunks", "deleteFile"))
  /\ UNCHANGED <<gen, files, blobs, vectors, nextId, started>>

\* deleteFile(fileId)
DeleteFileRow(c) ==
  /\ call[c].kind = "delete" /\ call[c].pc = "deleteFile"
  /\ files' = [files EXCEPT ![call[c].file] = NoFile]
  /\ IF call[c].existing # {}
     THEN SetCall(c, Step(c, "deleteFile", "deleteVectors"))
     ELSE SetCall(c, [Step(c, "deleteFile", "done") EXCEPT !.status = 200])
  /\ UNCHANGED <<gen, blobs, chunkTable, vectors, nextId, started>>

DeleteVectors(c) ==
  /\ call[c].kind = "delete" /\ call[c].pc = "deleteVectors"
  /\ \E ok \in BOOLEAN :
       IF ok
       THEN /\ vectors' = VectorsDeleted(vectors, call[c].existing,
                            call[c].frec.visibility, call[c].frec.owner_id)
            /\ SetCall(c, [Step(c, "deleteVectors", "done") EXCEPT !.status = 200])
       ELSE /\ UNCHANGED vectors
            /\ SetCall(c, Thrown(c, "deleteVectors", 500, "IndexError"))
  /\ UNCHANGED <<gen, files, blobs, chunkTable, nextId, started>>

\* ----------------------------------------------------- queryNamespace
StartQuery(c) ==
  /\ \E ns \in QueryNamespaces : Begin(c, "query", "none", "none", ns, "query")
  /\ UNCHANGED <<gen, files, blobs, chunkTable, vectors, nextId>>

\* the vectors the first query can return: filtered on generation B,
\* namespaced on generation A
QueryCands(ns) ==
  IF isV2
  THEN {v \in vectors : MatchesFilter(v.metadata, filterFromNamespace(ns))}
  ELSE {v \in vectors : v.ns = ns}

\* the first query, retried whenever it matched nothing
QueryFirstRetryingAnyFilter(c) ==
  /\ call[c].kind = "query" /\ call[c].pc = "query"
  /\ LET cands == QueryCands(call[c].ns)
     IN \E raw \in TopKOf(cands) :
          LET matches == {buildMatch(WithScore(r, MaxScore)) : r \in raw}
          IN IF isV2 /\ matches = {}
             THEN SetCall(c, [Step(c, "query", "retry") EXCEPT !.queries = 1])
             ELSE SetCall(c, [Step(c, "query", "done") EXCEPT
                    !.matches = matches, !.queries = 1, !.status = 200])
  /\ UNCHANGED <<gen, files, blobs, chunkTable, vectors, nextId, started>>

\* the first query (the score plays no part in what queryNamespace returns;
\* these requests see every match with the highest score)
QueryFirst(c) ==
  /\ call[c].kind = "query" /\ call[c].pc = "query"
  /\ LET filter == filterFromNamespace(call[c].ns)
         cands == QueryCands(call[c].ns)
     IN \E raw \in TopKOf(cands) :
          LET matches == {buildMatch(WithScore(r, MaxScore)) : r \in raw}
          IN IF isV2 /\ matches = {} /\ DOMAIN filter # {}
             THEN SetCall(c, [Step(c, "query", "retry") EXCEPT !.queries = 1])
             ELSE SetCall(c, [Step(c, "query", "done") EXCEPT
                    !.matches = matches, !.queries = 1, !.status = 200])
  /\ UNCHANGED <<gen, files, blobs, chunkTable, vectors, nextId, started>>

\* generation B only: the retry without the metadata filter
QueryRetry(c) ==
  /\ call[c].kind = "query" /\ call[c].pc = "retry"
  /\ \E raw \in TopKOf(vectors) :
       SetCall(c, [Step(c, "queryUnfiltered", "done") EXCEPT
         !.matches = {buildMatch(WithScore(r, MaxScore)) : r \in raw},
         !.queries = 2, !.status = 200])
  /\ UNCHANGED <<gen, files, blobs, chunkTable, vectors, nextId, started>>

\* ---------------------------------------------------- embedding client
\* createEmbeddings for n inputs, given what the provider does: a non-2xx
\* answer throws OpenAIError, a failed fetch throws another error, a 2xx
\* answer is returned as it came (payload.data.map), whatever its length
createEmbeddings(n, out) ==
  IF out.res = "non2xx" THEN [ok |-> FALSE, err |-> "OpenAIError", n |-> 0]
  ELSE IF out.res = "network" THEN [ok |-> FALSE, err |-> "Error", n |-> 0]
  ELSE [ok |-> TRUE, err |-> "", n |-> out.n]

\* normalizeQuestionEmbedding(raw) of a number[][]: its first vector, or a
\* throw when there is none
normalizeQuestionEmbedding(raw) ==
  IF raw.n > 0 THEN [ok |-> TRUE, err |-> ""]
  ELSE [ok |-> FALSE, err |-> "Error"]

\* ------------------------------------------------------------ parseTopK
DefaultTopK == 8

Digits == <<"0", "1", "2", "3", "4", "5", "6", "7", "8", "9">>

IsDigit(ch) == \E d \in 1..10 : Digits[d] = ch

DigitValue(ch) == (CHOOSE d \in 1..10 : Digits[d] = ch) - 1

NaN == [finite |-> FALSE, n |-> 0]

\* the digits of text from position i on, up to the first other character
RECURSIVE ReadDigits(_, _, _, _)
ReadDigits(text, i, acc, any) ==
  IF i <= Len(text) /\ IsDigit(text[i])
  THEN ReadDigits(text, i + 1, 10 * acc + DigitValue(text[i]), TRUE)
  ELSE IF any THEN [finite |-> TRUE, n |-> acc] ELSE NaN

RECURSIVE SkipSpaces(_, _)
SkipSpaces(text, i) ==
  IF i <= Len(text) /\ text[i] = " " THEN SkipSpaces(text, i + 1) ELSE i

\* Number.parseInt(text, 10): leading blanks, an optional sign, digits
parseInt(text) ==
  LET i == SkipSpaces(text, 1)
      signed == i <= Len(text) /\ text[i] \in {"-", "+"}
      r == ReadDigits(text, IF signed THEN i + 1 ELSE i, 0, FALSE)
  IN IF signed /\ text[i] = "-" /\ r.finite THEN [finite |-> TRUE, n |-> 0 - r.n]
     ELSE r

\* an environment value: unset, or a string of characters
Unset == [set |-> FALSE, text |-> <<>>]

EnvText(text) == [set |-> TRUE, text |-> text]

parseTopK(value) ==
  LET parsed == IF value.set /\ value.text # <<>> THEN parseInt(value.text) ELSE NaN
  IN IF parsed.finite /\ parsed.n > 0 THEN parsed.n ELSE DefaultTopK

\* the values of VECTOR_TOP_K: unset, not a number, zero, negative, and a
\* positive number
TopKValues ==
  {Unset, EnvText(<<"x">>), EnvText(<<"0">>), EnvText(<<"-", "1">>), EnvText(<<"2">>)}

\* ------------------------------------------------- answers of the index
\* every answer of the index to a query with topK = k over the candidate
\* vectors: distinct vectors, nearest first, scores in 1..maxS
RECURSIVE IndexAnswers(_, _, _)
IndexAnswers(cands, k, maxS) ==
  IF k = 0 \/ cands = {} THEN {<<>>}
  ELSE UNION {{<<WithScore(v, sc)>> \o rest : rest \in IndexAnswers(cands \ {v}, k - 1, sc)}
              : <<v, sc>> \in cands \X (1..maxS)}

\* raw.map(buildMatch)
RECURSIVE BuildMatches(_)
BuildMatches(raw) ==
  IF raw = <<>> THEN <<>> ELSE <<buildMatch(Head(raw))>> \o BuildMatches(Tail(raw))

\* --------------------------------------------------- merge, sort, slice
\* the position of chunkId in the Map, 0 when it is not a key
PositionOf(merged, chunkId) ==
  IF \E k \in 1..Len(merged) : merged[k].chunkId = chunkId
  THEN CHOOSE k \in 1..Len(merged) : merged[k].chunkId = chunkId
  ELSE 0

\* one iteration of the forEach: the last match of a chunk id wins
MergeStepLastWins(merged, match) ==
  LET p == PositionOf(merged, match.chunkId)
      entry == [chunkId |-> match.chunkId, score |-> match.score, match |-> match]
  IN IF p = 0 THEN Append(merged, entry) ELSE [merged EXCEPT ![p] = entry]

\* one iteration of the forEach over results.flat()
MergeStep(merged, match) ==
  LET p == PositionOf(merged, match.chunkId)
      entry == [chunkId |-> match.chunkId, score |-> match.score, match |-> match]
  IN IF p = 0 THEN Append(merged, entry)
     ELSE IF match.score > merged[p].score THEN [merged EXCEPT ![p] = entry]
          ELSE merged

RECURSIVE MergeFrom(_, _)
MergeFrom(flat, merged) ==
  IF flat = <<>> THEN merged ELSE MergeFrom(Tail(flat), MergeStep(merged, Head(flat)))

\* the Map's values, in insertion order
Merged(results) == MergeFrom(results[1] \o results[2], <<>>)

\* Array.prototype.sort with (a, b) => b.score - a.score: stable, descending
RECURSIVE InsertByScore(_, _)
InsertByScore(sorted, e) ==
  IF sorted = <<>> THEN <<e>>
  ELSE IF Head(sorted).score >= e.score
       THEN <<Head(sorted)>> \o InsertByScore(Tail(sorted), e)
       ELSE <<e>> \o sorted

RECURSIVE SortByScore(_)
SortByScore(entries) ==
  IF entries = <<>> THEN <<>>
  ELSE InsertByScore(SortByScore(SubSeq(entries, 1, Len(entries) - 1)),
                     entries[Len(entries)])

\* .slice(0, topK) without the sort
TopMatchesUnsorted(merged, topK) == SubSeq(merged, 1, Min(topK, Len(merged)))

\* .sort(...).slice(0, topK)
TopMatches(merged, topK) ==
  SubSeq(SortByScore(merged), 1, Min(topK, Len(merged)))

\* ---------------------------------------------------------- JSON values
\* what the language-model endpoint may send in a 2xx body: a body that is
\* not JSON, or a JSON value.  A string carries what JSON.parse makes of it.
JInvalid == [t |-> "invalid"]
JUndef == [t |-> "undefined"]
JNull == [t |-> "null"]
JNum(n) == [t |-> "num", n |-> n]
JStr(text, parse) == [t |-> "str", text |-> text, parse |-> parse]
JArr(items) == [t |-> "arr", items |-> items]
JObj(f) == [t |-> "obj", f |-> f]

\* prose: a string that JSON.parse rejects
Prose(text) == JStr(text, JInvalid)

\* JSON.stringify(value)
Stringified(text, value) == JStr(text, value)

IsString(v) == v.t = "str"
IsArray(v) == v.t = "arr"
IsObject(v) == v.t \in {"obj", "arr"}
Nullish(v) == v.t \in {"undefined", "null"}
Truthy(v) ==
  \/ v.t \in {"obj", "arr"}
  \/ v.t = "str" /\ v.text # ""
  \/ v.t = "num" /\ v.n # 0

\* text.trim() is empty
Blank(v) == v.text \in {"", " "}

\* v.k for a value that is not null or undefined
Get(v, k) == IF v.t = "obj" /\ k \in DOMAIN v.f THEN v.f[k] ELSE JUndef

Items(v) == IF IsArray(v) THEN v.items ELSE <<>>

\* a ?? b
Coalesce(a, b) == IF Nullish(a) THEN b ELSE a

\* ------------------------------------------------------ callResponses
Apology == "I had trouble parsing the model response."
NothingRelevant == "I couldn't find anything relevant in your Marble files."

NoResult == [found |-> FALSE, answer |-> "", citations |-> <<>>]

RECURSIVE FilterCitations(_)
FilterCitations(items) ==
  IF items = <<>> THEN <<>>
  ELSE LET item == Head(items)
           keep == /\ Truthy(item) /\ IsObject(item)
                   /\ IsString(Get(item, "folder"))
                   /\ IsString(Get(item, "file"))
                   /\ IsArray(Get(item, "lines"))
       IN (IF keep THEN <<item>> ELSE <<>>) \o FilterCitations(Tail(items))

\* normalizeChatResult(candidate), candidate not null
normalizeChatResult(candidate) ==
  LET a == Get(candidate, "answer")
      hasAnswer == IsString(a) /\ a.text # ""
      citationsRaw == Get(candidate, "citations")
  IN IF ~hasAnswer /\ ~IsArray(citationsRaw) THEN NoResult
     ELSE [found |-> TRUE,
           answer |-> IF IsString(a) THEN a.text ELSE "",
           citations |-> FilterCitations(Items(citationsRaw))]

\* the first loop of extractChatResultFromCandidates
RECURSIVE FromObjects(_)
FromObjects(objects) ==
  IF objects = <<>> THEN NoResult
  ELSE LET candidate == Head(objects)
           result == IF Truthy(candidate) /\ IsObject(candidate)
                     THEN normalizeChatResult(candidate) ELSE NoResult
       IN IF result.found THEN result ELSE FromObjects(Tail(objects))

\* the second loop: JSON.parse, normalizeChatResult, and the catch branch
\* (JSON.parse threw, or normalizeChatResult threw on null)
RECURSIVE FromStrings(_)
FromStrings(strings) ==
  IF strings = <<>> THEN NoResult
  ELSE LET text == Head(strings)
           threw == text.parse = JInvalid \/ Nullish(text.parse)
           result == IF threw THEN NoResult ELSE normalizeChatResult(text.parse)
       IN IF threw /\ ~Blank(text)
          THEN [found |-> TRUE, answer |-> text.text, citations |-> <<>>]
          ELSE IF result.found THEN result ELSE FromStrings(Tail(strings))

extractChatResultFromCandidates(objects, strings) ==
  LET first == FromObjects(objects)
  IN IF first.found THEN first ELSE FromStrings(strings)

\* block.output_json ?? block.json ?? ... ?? block.parsed
JsonLike(block) ==
  Coalesce(Get(block, "output_json"), Coalesce(Get(block, "json"),
    Coalesce(Get(block, "data"), Coalesce(Get(block, "value"),
      Coalesce(Get(block, "response_json"), Get(block, "parsed"))))))

\* the object candidates pushed for the blocks of one content array
RECURSIVE BlockObjects(_, _)
BlockObjects(blocks, withInner) ==
  IF blocks = <<>> THEN <<>>
  ELSE LET block == Head(blocks)
           jsonLike == JsonLike(block)
           inner == Coalesce(Get(block, "content"), Coalesce(Get(block, "schema"), JNull))
           typed == /\ IsString(Get(block, "type"))
                    /\ Get(block, "type").text \in {"output_json_schema", "output_json"}
       IN (IF ~IsObject(block) THEN <<>>
           ELSE (IF Truthy(jsonLike) THEN <<jsonLike>> ELSE <<>>)
                \o (IF withInner /\ typed /\ Truthy(inner) THEN <<inner>> ELSE <<>>))
          \o BlockObjects(Tail(blocks), withInner)

\* the string candidates pushed for the blocks of one content array
RECURSIVE BlockStrings(_)
BlockStrings(blocks) ==
  IF blocks = <<>> THEN <<>>
  ELSE LET block == Head(blocks)
       IN (IF IsObject(block) /\ IsString(Get(block, "text"))
           THEN <<Get(block, "text")>> ELSE <<>>)
          \o BlockStrings(Tail(blocks))

RECURSIVE OutputObjects(_)
OutputObjects(entries) ==
  IF entries = <<>> THEN <<>>
  ELSE BlockObjects(Items(Get(Head(entries), "content")), TRUE)
         \o OutputObjects(Tail(entries))

RECURSIVE OutputStrings(_)
OutputStrings(entries) ==
  IF entries = <<>> THEN <<>>
  ELSE BlockStrings(Items(Get(Head(entries), "content")))
         \o OutputStrings(Tail(entries))

\* the strings of a value that is a string or an array holding strings
RECURSIVE StringsOf(_)
StringsOf(v) ==
  IF IsString(v) THEN <<v>>
  ELSE IF IsArray(v) /\ v.items # <<>>
       THEN (IF IsString(Head(v.items)) THEN <<Head(v.items)>> ELSE <<>>)
              \o StringsOf(JArr(Tail(v.items)))
       ELSE <<>>

\* what callResponses makes of a 2xx answer with this body: a ChatResult, or
\* a throw (response.json() rejects, or a property of null is read)
ParsedPayload(payload) ==
  LET output == Items(Get(payload, "output"))
      responseMessage == Coalesce(Get(payload, "response"), Get(payload, "message"))
      objects == OutputObjects(output)
                   \o BlockObjects(Items(Get(responseMessage, "content")), FALSE)
      strings == OutputStrings(output)
                   \o BlockStrings(Items(Get(responseMessage, "content")))
                   \o StringsOf(Get(responseMessage, "output_text"))
                   \o StringsOf(Get(payload, "output_text"))
      parsedResult == extractChatResultFromCandidates(objects, strings)
  IN IF payload = JInvalid \/ Nullish(payload)
        \/ \E k \in 1..Len(output) : Nullish(output[k])
     THEN [thrown |-> TRUE, answer |-> "", citations |-> <<>>]
     ELSE IF ~parsedResult.found
          THEN [thrown |-> FALSE, answer |-> Apology, citations |-> <<>>]
          ELSE [thrown |-> FALSE, answer |-> parsedResult.answer,
                citations |-> parsedResult.citations]

\* callResponses, given what the endpoint does
callResponses(out) ==
  IF out.res = "non2xx" THEN [thrown |-> TRUE, answer |-> "", citations |-> <<>>]
  ELSE IF out.res = "network" THEN [thrown |-> TRUE, answer |-> "", citations |-> <<>>]
  ELSE ParsedPayload(out.payload)

\* ------------------------------------------- the language-model endpoint
FolderName == "root"

Citation(folder, file, startLine, endLine) ==
  JObj([folder |-> Prose(folder), file |-> Prose(file),
        lines |-> JArr(<<JNum(startLine), JNum(endLine)>>)])

\* the citations arrays a model may write: none, the one chunk of f2, a
\* chunk of f1, a line range that no chunk has, an item that is no citation
CitationArrays ==
  {<<>>,
   <<Citation(FolderName, "f2", 1, 1)>>,
   <<Citation(FolderName, "f1", 1, 1)>>,
   <<Citation(FolderName, "f2", 7, 9)>>,
   <<JObj([folder |-> Prose(FolderName), file |-> JNull, lines |-> JNull])>>}

AnswerObject(cits) == JObj([answer |-> Prose("A"), citations |-> JArr(cits)])

Message(block) == JObj([content |-> JArr(<<block>>)])

\* the 2xx bodies of the endpoint
Payloads ==
  \* the schema-following answer as JSON text in an output_text block
  {JObj([output |-> JArr(<<Message(JObj([type |-> Prose("output_text"),
            text |-> Stringified("json", AnswerObject(cits))]))>>)])
     : cits \in CitationArrays}
  \cup
  \* the answer as a structured object
  {JObj([output |-> JArr(<<Message(JObj([type |-> Prose("output_json"),
            output_json |-> AnswerObject(cits)]))>>)])
     : cits \in {<<>>, <<Citation(FolderName, "f2", 7, 9)>>}}
  \cup
  {\* prose
   JObj([output_text |-> Prose("prose")]),
   \* nothing usable: no candidate, blank text, JSON without answer
   JObj(<<>>),
   JObj([output_text |-> Prose(" ")]),
   JObj([output_text |-> JArr(<<Stringified("{}", JObj(<<>>))>>)]),
   \* the JSON text null
   JObj([response |-> JObj([output_text |-> Stringified("null", JNull)])]),
   \* an output entry that is null, the body null, a body that is not JSON
   JObj([output |-> JArr(<<JNull>>)]),
   JNull,
   JInvalid}

LLMOutcomes ==
  {[res |-> "non2xx", payload |-> JNull], [res |-> "network", payload |-> JNull]}
    \cup {[res |-> "ok", payload |-> p] : p \in Payloads}

\* ----------------------------------------------------------- handleChat
\* a question is a sequence of words and blanks
RECURSIVE TrimLeft(_)
TrimLeft(q) == IF q # <<>> /\ Head(q) = " " THEN TrimLeft(Tail(q)) ELSE q

RECURSIVE TrimRight(_)
TrimRight(q) ==
  IF q # <<>> /\ q[Len(q)] = " " THEN TrimRight(SubSeq(q, 1, Len(q) - 1)) ELSE q

\* String.prototype.trim
Trim(q) == TrimRight(TrimLeft(q))

LowerCase(word) == IF word = "/LookUp" THEN "/lookup" ELSE word

\* rawQuestion.match(/^\/lookup\s*(.*)$/i)
IsLookup(rawQuestion) == rawQuestion # <<>> /\ LowerCase(Head(rawQuestion)) = "/lookup"

\* (lookupMatch?.[1] ?? '').trim()
LookupQuery(rawQuestion) == Trim(Tail(rawQuestion))

\* the questions asked: blank, freeform, the bare command, a lookup
Questions ==
  {<<" ">>, <<" ", "hello", " ">>, <<"/lookup", " ">>, <<" ", "/LookUp", " ", "marble">>}

\* the frame of a chat request of user u
NewChat(u, question, value) ==
  [pc |-> "parse", user |-> u, question |-> question, VECTOR_TOP_K |-> value,
   rawQuestion |-> <<>>, lookupQuery |-> <<>>, mode |-> "",
   embedOut |-> [res |-> "none", n |-> 0], raw |-> [ok |-> FALSE, err |-> "", n |-> 0],
   topK |-> 0, q |-> <<"first", "first">>, nsFailed |-> <<FALSE, FALSE>>,
   arrived |-> <<>>, results |-> << <<>>, <<>> >>, merged |-> <<>>, topMatches |-> <<>>,
   contexts |-> <<>>, llmCalls |-> 0, llmOut |-> [res |-> "none", payload |-> JNull],
   structured |-> [answer |-> "", citations |-> <<>>],
   ops |-> <<>>, status |-> 0, err |-> "", answer |-> "", citations |-> <<>>,
   sources |-> <<>>, inserted |-> 0]

ChatStep(op, pc) == [chat EXCEPT !.ops = Append(@, op), !.pc = pc]

ChatThrown(op, status, err) ==
  [chat EXCEPT !.ops = Append(@, op), !.pc = "failed", !.status = status, !.err = err]

\* c.json({id, answer, citations, sources})
Responded(frame, answer, citations, sources) ==
  [frame EXCEPT !.pc = "done", !.status = 200, !.answer = answer,
                !.citations = citations, !.sources = sources]

\* lines 42-73: trim, the empty checks and the mode
ChatParse ==
  /\ chat.pc = "parse"
  /\ LET rawQuestion == Trim(chat.question)
         lookupQuery == LookupQuery(rawQuestion)
     IN chat' =
          IF rawQuestion = <<>> THEN ChatThrown("parse", 400, "EmptyQuestion")
          ELSE IF ~IsLookup(rawQuestion)
               THEN [ChatStep("parse", "general") EXCEPT
                       !.rawQuestion = rawQuestion, !.mode = "freeform"]
               ELSE IF lookupQuery = <<>> THEN ChatThrown("parse", 400, "EmptyLookup")
                    ELSE [ChatStep("parse", "embed") EXCEPT
                            !.rawQuestion = rawQuestion, !.mode = "grounded",
                            !.lookupQuery = lookupQuery]
  /\ UNCHANGED <<messages, chunkVars, storeVars>>

\* the language-model call of either mode: an error of callResponses leaves
\* handleChat and becomes a 500 in app.onError
AskedModel(op, out) ==
  LET r == callResponses(out)
  IN IF r.thrown
     THEN [ChatThrown(op, 500, IF out.res = "non2xx" THEN "OpenAIError" ELSE "Error")
             EXCEPT !.llmCalls = @ + 1, !.llmOut = out]
     ELSE [ChatStep(op, "record") EXCEPT
             !.llmCalls = @ + 1, !.llmOut = out,
             !.structured = [answer |-> r.answer, citations |-> r.citations]]

\* line 52: generateGeneralAnswer
ChatGeneral ==
  /\ chat.pc = "general"
  /\ \E out \in LLMOutcomes : chat' = AskedModel("generateGeneralAnswer", out)
  /\ UNCHANGED <<messages, chunkVars, storeVars>>

\* lines 76-84: createEmbeddings, normalizeQuestionEmbedding, parseTopK
ChatEmbedded(out) ==
  LET raw == createEmbeddings(1, out)
  IN IF ~raw.ok \/ ~normalizeQuestionEmbedding(raw).ok
     THEN [ChatThrown("embed", 500, "EmbedFailed") EXCEPT !.embedOut = out, !.raw = raw]
     ELSE [ChatStep("embed", "query") EXCEPT
             !.embedOut = out, !.raw = raw, !.topK = parseTopK(chat.VECTOR_TOP_K)]

ChatEmbed ==
  /\ chat.pc = "embed"
  /\ \E out \in EmbedOutcomes(1) : chat' = ChatEmbedded(out)
  /\ UNCHANGED <<messages, chunkVars, storeVars>>

\* line 87: namespaces = [publicNamespace(), privateNamespace(user.id)]
ChatNamespaces == <<publicNamespace, privateNamespace(chat.user)>>

\* the frame after the query of namespace number j settled with these matches
QuerySettled(j, op, matches, failed) ==
  LET q == [chat.q EXCEPT ![j] = "done"]
  IN [ChatStep(op, IF \A k \in 1..2 : q[k] = "done" THEN "merge" ELSE "query") EXCEPT
        !.q = q, !.results = [@ EXCEPT ![j] = matches],
        !.nsFailed = [@ EXCEPT ![j] = failed], !.arrived = Append(@, j)]

\* a query that throws fails the whole request
QueryFailedAborting(j, op) == ChatThrown(op, 500, "IndexError")

\* lines 92-95: the catch of one namespace returns []
QueryFailed(j, op) == QuerySettled(j, op, <<>>, TRUE)

\* queryNamespace of namespace number j, first query
ChatQueryFirst(j) ==
  /\ chat.pc = "query" /\ chat.q[j] = "first"
  /\ LET ns == ChatNamespaces[j]
         filter == filterFromNamespace(ns)
     IN \/ chat' = QueryFailed(j, "query")
        \/ \E raw \in IndexAnswers(QueryCands(ns), chat.topK, MaxScore) :
             LET matches == BuildMatches(raw)
             IN IF isV2 /\ matches = <<>> /\ DOMAIN filter # {}
                THEN chat' = [ChatStep("query", "query") EXCEPT !.q = [@ EXCEPT ![j] = "retry"]]
                ELSE chat' = QuerySettled(j, "query", matches, FALSE)
  /\ UNCHANGED <<messages, chunkVars, storeVars>>

\* queryNamespace of namespace number j, the retry without the filter
ChatQueryRetry(j) ==
  /\ chat.pc = "query" /\ chat.q[j] = "retry"
  /\ \/ chat' = QueryFailed(j, "queryUnfiltered")
     \/ \E raw \in IndexAnswers(vectors, chat.topK, MaxScore) :
          chat' = QuerySettled(j, "queryUnfiltered", BuildMatches(raw), FALSE)
  /\ UNCHANGED <<messages, chunkVars, storeVars>>

\* lines 99-126: merge, sort, slice, and the answer when nothing matched
ChatMerge ==
  /\ chat.pc = "merge"
  /\ LET merged == Merged(chat.results)
         topMatches == TopMatches(merged, chat.topK)
         frame == [ChatStep("merge", "getChunks") EXCEPT
                     !.merged = merged, !.topMatches = topMatches]
     IN chat' = IF topMatches = <<>>
                THEN Responded(frame, NothingRelevant, <<>>, <<>>)
                ELSE frame
  /\ UNCHANGED <<messages, chunkVars, storeVars>>

\* getChunksByIds: the rows with these ids whose file row exists
getChunksByIds(chunkIds) ==
  IF chunkIds = {} THEN {}
  ELSE {r \in chunkTable : r.id \in chunkIds /\ files[r.file_id] # NoFile}

\* contexts built from the matches' metadata, resolved or not
RECURSIVE ContextsFromMatches(_, _, _)
ContextsFromMatches(topMatches, rows, order) ==
  IF topMatches = <<>> THEN <<>>
  ELSE LET m == Head(topMatches).match
       IN <<[order |-> order, chunkId |-> m.chunkId, folderName |-> FolderName,
             fileName |-> m.fileId, startLine |-> m.startLine,
             endLine |-> m.endLine, content |-> <<>>]>>
          \o ContextsFromMatches(Tail(topMatches), rows, order + 1)

\* lines 130-154: one context per top match that resolves to a row
RECURSIVE Contexts(_, _, _)
Contexts(topMatches, rows, order) ==
  IF topMatches = <<>> THEN <<>>
  ELSE LET id == Head(topMatches).match.chunkId
           found == {r \in rows : r.id = id}
           ch == CHOOSE r \in found : TRUE
       IN (IF found = {} THEN <<>>
           ELSE <<[order |-> order, chunkId |-> ch.id, folderName |-> FolderName,
                   fileName |-> ch.file_id, startLine |-> ch.start_line,
                   endLine |-> ch.end_line, content |-> ch.content]>>)
          \o Contexts(Tail(topMatches), rows, order + 1)

\* a context for every top match, resolved or not
ContextsOfAll(topMatches, rows) == ContextsFromMatches(topMatches, rows, 0)

\* topMatches.map(...).filter(Boolean)
ContextsOf(topMatches, rows) == Contexts(topMatches, rows, 0)

\* lines 129-164: the chunk rows, the contexts, and the answer when none is left
ChatGetChunks ==
  /\ chat.pc = "getChunks"
  /\ \E ok \in BOOLEAN :
       IF ok
       THEN LET chunkIds == {chat.topMatches[k].match.chunkId : k \in 1..Len(chat.topMatches)}
                contexts == ContextsOf(chat.topMatches, getChunksByIds(chunkIds))
                frame == [ChatStep("getChunksByIds", "answer") EXCEPT !.contexts = contexts]
            IN chat' = IF contexts = <<>>
                       THEN Responded(frame, NothingRelevant, <<>>, <<>>)
                       ELSE frame
       ELSE chat' = ChatThrown("getChunksByIds", 500, "DbError")
  /\ UNCHANGED <<messages, chunkVars, storeVars>>

\* line 173: generateStructuredAnswer with at least one context
ChatAnswer ==
  /\ chat.pc = "answer"
  /\ \E out \in LLMOutcomes : chat' = AskedModel("generateStructuredAnswer", out)
  /\ UNCHANGED <<messages, chunkVars, storeVars>>

\* the row with the text after the command in place of the question
ChatRecordOfLookupQuery(frame) ==
  [id |-> Len(messages) + 1, user_id |-> frame.user, question |-> frame.lookupQuery,
   answer |-> frame.structured.answer, citations |-> frame.structured.citations]

\* the row recordChat inserts
ChatRecordOf(frame) ==
  [id |-> Len(messages) + 1, user_id |-> frame.user, question |-> frame.rawQuestion,
   answer |-> frame.structured.answer, citations |-> frame.structured.citations]

\* lines 54-67 and 185-199: recordChat, then the response
ChatRecord ==
  /\ chat.pc = "record"
  /\ \E ok \in BOOLEAN :
       IF ok
       THEN /\ messages' = Append(messages, ChatRecordOf(chat))
            /\ chat' = Responded([ChatStep("recordChat", "done") EXCEPT !.inserted = @ + 1],
                         chat.structured.answer, chat.structured.citations,
                         IF chat.mode = "grounded" THEN chat.contexts ELSE <<>>)
       ELSE /\ UNCHANGED messages
            /\ chat' = ChatThrown("recordChat", 500, "DbError")
  /\ UNCHANGED <<chunkVars, storeVars>>

\* ------------------------------------------- specification of one chat
\* ids of the stored chunks of f1 and f2
IdBase(f) == IF f = "f1" THEN 10 ELSE 20

StoredChunks(f) == ChunkText(FileText(f), CHUNK_SIZE, CHUNK_OVERLAP)

IngestedFile(f) == [FileRow(f) EXCEPT !.status = "ready"]

\* the rows and vectors a successful ingestion of f leaves
StoredRows(f) ==
  {[id |-> IdBase(f) + k, file_id |-> f, owner_id |-> FileOwner(f),
    visibility |-> FileVisibility(f), chunk_index |-> k - 1,
    start_line |-> StoredChunks(f)[k].startLine,
    end_line |-> StoredChunks(f)[k].endLine,
    content |-> StoredChunks(f)[k].content] : k \in 1..Len(StoredChunks(f))}

StoredVectors(f, g) ==
  {[ns |-> IF g = "B" THEN GlobalNs
           ELSE partitionForVisibility(r.visibility, r.owner_id),
    id |-> r.id,
    metadata |-> [chunkId |-> r.id, fileId |-> f, startLine |-> r.start_line,
                  endLine |-> r.end_line, visibility |-> r.visibility,
                  ownerId |-> r.owner_id]] : r \in StoredRows(f)}

\* what ingestions left behind, as <<files with vectors, files with rows>>:
\* nothing; both files; f2 whose rows a failed re-ingestion deleted; the
\* same with f1 intact
Stores ==
  {<<{}, {}>>, <<Files, Files>>, <<{"f2"}, {}>>, <<Files, {"f1"}>>}

InitChat ==
  /\ gen \in {"A", "B"}
  /\ \E st \in Stores :
       /\ chunkTable = UNION {StoredRows(f) : f \in st[2]}
       /\ vectors = UNION {StoredVectors(f, gen) : f \in st[1]}
  /\ files = [f \in Files |-> IngestedFile(f)]
  /\ blobs = [f \in Files |-> FileText(f)]
  /\ nextId = 1
  /\ started = 0
  /\ call = [c \in Calls |-> IdleCall]
  /\ messages = <<>>
  /\ chat \in {NewChat(u, question, value) :
                 u \in Users, question \in Questions, value \in TopKValues}
  /\ source = <<>> /\ chunkSize = 0 /\ overlap = 0 /\ offsets = <<>>
  /\ position = 0 /\ index = 0 /\ end = 0 /\ chunks = <<>> /\ cpc = "idle"

NextChat ==
  \/ ChatParse
  \/ ChatGeneral
  \/ ChatEmbed
  \/ \E j \in 1..2 : ChatQueryFirst(j)
  \/ \E j \in 1..2 : ChatQueryRetry(j)
  \/ ChatMerge
  \/ ChatGetChunks
  \/ ChatAnswer
  \/ ChatRecord

SpecChat == InitChat /\ [][NextChat]_vars

\* ------------------------------------------------------ specification
\* two users have each uploaded one text file (one private, one public);
\* the index is of either generation
Init ==
  /\ gen \in {"A", "B"}
  /\ files = [f \in Files |-> FileRow(f)]
  /\ blobs = [f \in Files |-> FileText(f)]
  /\ chunkTable = {}
  /\ vectors = {}
  /\ nextId = 1
  /\ started = 0
  /\ call = [c \in Calls |-> IdleCall]
  /\ ChatIdle
  /\ source = <<>> /\ chunkSize = 0 /\ overlap = 0 /\ offsets = <<>>
  /\ position = 0 /\ index = 0 /\ end = 0 /\ chunks = <<>> /\ cpc = "idle"

Next ==
  \E c \in Calls :
    /\ UNCHANGED chunkVars
    /\ UNCHANGED chatVars
    /\ \/ StartIngest(c)
       \/ IngestGetFile(c)
       \/ IngestGetObject(c)
       \/ IngestEmbed(c)
       \/ IngestSelectChunks(c)
       \/ IngestDeleteChunks(c)
       \/ IngestDeleteVectors(c)
       \/ IngestInsertChunk(c)
       \/ IngestUpsert(c)
       \/ IngestUpdateStatus(c)
       \/ StartDelete(c)
       \/ DeleteGetFile(c)
       \/ DeleteObject(c)
       \/ DeleteSelectChunks(c)
       \/ DeleteDeleteChunks(c)
       \/ DeleteFileRow(c)
       \/ DeleteVectors(c)
       \/ StartQuery(c)
       \/ QueryFirst(c)
       \/ QueryRetry(c)

Spec == Init /\ [][Next]_vars

\* ------------------------------- specification of requests on a filled store
\* f1 has been ingested (its rows and vectors are stored, its status is
\* 'ready'); f2 has been uploaded as an empty text and was never ingested
EmptyText == <<>>

InitStored ==
  /\ gen \in {"A", "B"}
  /\ files = [f \in Files |-> IF f = "f1" THEN IngestedFile(f) ELSE FileRow(f)]
  /\ blobs = [f \in Files |-> IF f = "f1" THEN FileText(f) ELSE EmptyText]
  /\ chunkTable = StoredRows("f1")
  /\ vectors = StoredVectors("f1", gen)
  /\ nextId = 1
  /\ started = 0
  /\ call = [c \in Calls |-> IdleCall]
  /\ ChatIdle
  /\ source = <<>> /\ chunkSize = 0 /\ overlap = 0 /\ offsets = <<>>
  /\ position = 0 /\ index = 0 /\ end = 0 /\ chunks = <<>> /\ cpc = "idle"

SpecStored == InitStored /\ [][Next]_vars

TypeOK ==
  /\ gen \in {"A", "B"}
  /\ nextId \in Nat
  /\ started \in 0..MaxCalls
  /\ \A c \in Calls : call[c].kind \in {"none", "ingest", "delete", "query"}

\* ------------------------------------------------ reference definitions
\* 1-based number of the line that holds the character at 0-based offset i
LineOfChar(s, i) == 1 + Cardinality({j \in 1..i : j <= Len(s) /\ s[j] = NL})

NumLines(s) == 1 + Cardinality({j \in 1..Len(s) : s[j] = NL})

RECURSIVE Reconstruct(_, _, _)
Reconstruct(cs, ov, k) ==
  IF k > Len(cs) THEN <<>>
  ELSE (IF k = 1 THEN cs[k].content
        ELSE Slice(cs[k].content, ov, Len(cs[k].content)))
       \o Reconstruct(cs, ov, k + 1)

ValidOptions == chunkSize > 0 /\ overlap >= 0 /\ overlap < chunkSize

Pushed == Len(chunks') = Len(chunks) + 1

\* C2: for a non-empty source and 0 <= overlap < chunkSize, the first chunk
\* followed by every later chunk without its first `overlap` characters is
\* the source, and the last window ends at source.length.
C2_Reconstructs ==
  (cpc = "returned" /\ source # <<>> /\ ValidOptions)
    => /\ Reconstruct(chunks, overlap, 1) = source
       /\ end = Len(source)

C2_Witness ==
  /\ cpc = "returned"
  /\ ValidOptions
  /\ overlap >= 1
  /\ Len(chunks) >= 3

\* C3: every iteration that continues the loop moves the window start
\* strictly forward (or the call throws), also when overlap >= chunkSize.
C3_ForwardProgress ==
  [][(cpc = "loop" /\ cpc' = "loop") => position' > position]_vars

\* C4: each pushed chunk has index = its position in the list, its startLine
\* and endLine are the lines of its first and last character, and
\* 1 <= startLine <= endLine <= number of lines of the source.
C4_LineRange ==
  [][Pushed =>
       LET c == chunks'[Len(chunks')]
       IN /\ c.index = Len(chunks)
          /\ SubSeq(chunks', 1, Len(chunks)) = chunks
          /\ c.startLine = LineOfChar(source, position)
          /\ c.endLine = LineOfChar(source, end' - 1)
          /\ 1 <= c.startLine
          /\ c.startLine <= c.endLine
          /\ c.endLine <= NumLines(source)]_vars

C4_Witness ==
  /\ Len(chunks) >= 2
  /\ chunks[2].startLine = 2
  /\ chunks[2].endLine = 3

\* C5: a chunk whose last character is the newline ending line L has
\* endLine = L; every chunk of a single-line source has startLine = endLine = 1.
SingleLine(s) == \A j \in 1..(Len(s) - 1) : s[j] # NL

C5_NewlineBelongsToEarlierLine ==
  [][Pushed =>
       LET c == chunks'[Len(chunks')]
       IN /\ (source[end'] = NL) =>
               c.endLine = Cardinality({j \in 1..end' : source[j] = NL})
          /\ SingleLine(source) => (c.startLine = 1 /\ c.endLine = 1)]_vars

C5_Witness ==
  /\ Len(chunks) >= 2
  /\ end < Len(source)
  /\ source[end] = NL
  /\ chunks[Len(chunks)].endLine = 2

IsExample ==
  <<source, chunkSize, overlap>> = ExampleInput

LineOneNL == <<"L","i","n","e"," ","o","n","e",NL>>

\* C6 (as stated): on the 28-character example with chunkSize 9, overlap 2 the
\* first chunk is "Line one\n" with startLine = 1 and endLine = 2.
C6_Original ==
  (IsExample /\ Len(chunks) >= 1)
    => /\ chunks[1].content = LineOneNL
       /\ chunks[1].startLine = 1
       /\ chunks[1].endLine = 2

\* C6 (amended): on the 28-character example with chunkSize 9, overlap 2 the
\* first chunk is "Line one\n" with startLine = 1 and endLine = 1.
C6_FirstChunk ==
  (IsExample /\ Len(chunks) >= 1)
    => /\ Len(source) = 28
       /\ chunks[1].content = LineOneNL
       /\ chunks[1].startLine = 1
       /\ chunks[1].endLine = 1

C6_Witness == IsExample /\ cpc = "returned" /\ Len(chunks) >= 1

\* -------------------------------------------- properties of the handlers
Did(frame, op) == \E k \in 1..Len(frame.ops) : frame.ops[k] = op

WriteOps ==
  {"deleteObject", "deleteChunks", "deleteVectors", "deleteFile",
   "insertChunk", "upsert", "updateStatus"}

\* the request read at most the file row, the blob and the embeddings
NoWrites(frame) == \A k \in 1..Len(frame.ops) : frame.ops[k] \notin WriteOps

\* slot c executes one statement in this step
Acts(c) == Len(call'[c].ops) = Len(call[c].ops) + 1

RowsOf(table, f) == {r \in table : r.file_id = f}

VectorsOfFile(vs, f) == {v \in vs : v.metadata.fileId = f}

\* C1: a private vector of owner A is never among the matches of a query of
\* namespace user:B, B # A, on either index generation.
C1_NamespaceIsolation ==
  \A c \in Calls : \A b \in Users :
    (call[c].kind = "query" /\ call[c].pc = "done" /\ call[c].ns = privateNamespace(b))
      => \A m \in call[c].matches : ~(m.visibility = "private" /\ m.ownerId # b)

\* C7: when the embedding call answers with a number of vectors different
\* from the number of chunks, the ingestion ends with status 500 in that step,
\* has written nothing before, and the step leaves files, blobs, chunks and
\* vectors unchanged.
EmbedAnswered(frame) ==
  Did(frame, "embed") /\ frame.err \notin {"ProviderError", "EmbedFailed"}

C7_CountMismatchAborts ==
  [][\A c \in Calls :
       (Acts(c) /\ call[c].kind = "ingest" /\ call[c].pc = "embed"
          /\ EmbedAnswered(call'[c]) /\ call'[c].nEmb # Len(call[c].chs))
         => /\ call'[c].pc = "failed"
            /\ call'[c].status = 500
            /\ NoWrites(call'[c])
            /\ call'[c].written = {} /\ call'[c].upserts = 0
            /\ UNCHANGED <<files, blobs, chunkTable, vectors>>]_vars

C7_Witness ==
  \E c \in Calls :
    /\ call[c].err = "CountMismatch"
    /\ Len(call[c].chs) >= 2 /\ call[c].nEmb = Len(call[c].chs) - 1
    /\ RowsOf(chunkTable, call[c].file) # {}
    /\ VectorsOfFile(vectors, call[c].file) # {}

\* C8: an ingestion removes chunk rows or vectors only after its embedding
\* call returned one vector per chunk; a step in which chunking or embedding
\* fails changes no chunk row and no vector, and the call wrote nothing.
EmbedOk(frame) ==
  Did(frame, "embed") /\ frame.nEmb = Len(frame.chs) /\ frame.nEmb > 0
    /\ frame.err = ""

EmbedStageErrors ==
  {"NoContent", "ProviderError", "EmbedFailed", "ParseFailed", "CountMismatch"}

C8_DeleteAfterEmbed ==
  [][\A c \in Calls :
       (Acts(c) /\ call[c].kind = "ingest")
         => /\ (call[c].pc \in {"selectChunks", "deleteChunks", "deleteVectors"}
                  \/ ~(chunkTable \subseteq chunkTable')
                  \/ ~(vectors \subseteq vectors'))
                => EmbedOk(call[c])
            /\ (call'[c].err \in EmbedStageErrors)
                => /\ UNCHANGED <<chunkTable, vectors>>
                   /\ NoWrites(call'[c])]_vars

C8_Witness ==
  \E c \in Calls :
    /\ call[c].kind = "ingest"
    /\ call[c].err = "ProviderError"
    /\ Cardinality(RowsOf(chunkTable, call[c].file)) = Len(call[c].chs)
    /\ Cardinality(VectorsOfFile(vectors, call[c].file)) = Len(call[c].chs)

\* C9: an ingestion or deletion asked by a user who does not own the
\* (existing) file ends with 403 Forbidden and has done nothing but read the
\* file row: no blob read or delete, no chunk, vector, file row or status
\* change.
C9_ForbiddenBeforeStorage ==
  \A c \in Calls :
    (call[c].kind \in {"ingest", "delete"} /\ Len(call[c].ops) >= 1
       /\ call[c].user # FileOwner(call[c].file) /\ call[c].err # "NotFound")
      => /\ call[c].pc = "failed"
         /\ call[c].status = 403
         /\ call[c].err = "Forbidden"
         /\ call[c].ops = <<"getFile">>

C9_Witness ==
  \E c, d \in Calls :
    /\ call[c].kind = "ingest" /\ call[c].err = "Forbidden"
    /\ call[d].kind = "delete" /\ call[d].err = "Forbidden"

\* what a completed ingestion leaves behind: exactly its own n rows, one per
\* chunk of the chunker's output, n upserts, and status 'ready'
IngestedExactly(frame, table, fileTable) ==
  LET n == frame.upserts
      rows == RowsOf(table, frame.file)
  IN /\ n > 0
     /\ n = Len(frame.chs)
     /\ {r.id : r \in rows} = frame.written
     /\ Cardinality(rows) = n
     /\ \A r \in rows : /\ r.chunk_index \in 0..(n - 1)
                        /\ r.content = frame.chs[r.chunk_index + 1].content
     /\ fileTable[frame.file] # NoFile
     /\ fileTable[frame.file].status = "ready"

Completes(c) ==
  Acts(c) /\ call[c].kind = "ingest" /\ call[c].pc = "updateStatus"
    /\ call'[c].pc = "done"

\* C10 (as stated): when an ingestion succeeds and reports n > 0 chunks, the
\* chunk rows of the file are exactly the n rows written by this call, the
\* call issued n upserts, and the file status is 'ready'.
C10_Original ==
  [][\A c \in Calls :
       Completes(c) => IngestedExactly(call'[c], chunkTable', files')]_vars

\* C10 (amended): the same, for an ingestion during which no other ingestion
\* or deletion of the same file was in flight.
C10_ReplacesChunks ==
  [][\A c \in Calls :
       (Completes(c) /\ ~call'[c].overlapped)
         => IngestedExactly(call'[c], chunkTable', files')]_vars

\* a second, non-overlapping ingestion of f1 has completed
C10_Witness ==
  \E c \in Calls :
    /\ call[c].kind = "ingest" /\ call[c].pc = "done" /\ ~call[c].overlapped
    /\ call[c].existing # {}
    /\ call[c].upserts >= 2
    /\ {r.id : r \in RowsOf(chunkTable, call[c].file)} = call[c].written

\* (chunk_index, startLine, endLine, content) of a set of ChunkRecords
Tuples(rows) ==
  {<<r.chunk_index, r.start_line, r.end_line, r.content>> : r \in rows}

\* C11: when an ingestion of a file completes directly after a successful
\* ingestion of the same file (same content, same chunkSize and overlap, no
\* other request on the file in between or in flight), the file has as many
\* ChunkRecords as the first ingestion left, with the same (chunk_index,
\* startLine, endLine, content) tuples, and no chunk id or vector id of the
\* second ingestion is one of the first.
C11_ReingestReplaces ==
  [][\A c \in Calls :
       (Completes(c) /\ ~call'[c].overlapped /\ call[c].prev # {})
         => LET rows == RowsOf(chunkTable', call[c].file)
                first == call[c].prev
            IN /\ Cardinality(rows) = Cardinality(first)
               /\ Tuples(rows) = Tuples(first)
               /\ {r.id : r \in rows} \cap {r.id : r \in first} = {}
               /\ {v.id : v \in VectorsOfFile(vectors', call[c].file)}
                    \cap {r.id : r \in first} = {}
               /\ {v.id : v \in VectorsOfFile(vectors', call[c].file)}
                    = {r.id : r \in rows}]_vars

\* the second of two ingestions in sequence of the two-chunk file has completed
C11_Witness ==
  \E c \in Calls :
    /\ call[c].kind = "ingest" /\ call[c].pc = "done" /\ ~call[c].overlapped
    /\ Cardinality(call[c].prev) >= 2
    /\ Cardinality(RowsOf(chunkTable, call[c].file)) = Cardinality(call[c].prev)
    /\ call[c].written \cap {r.id : r \in call[c].prev} = {}

\* ------------------------------------------------ properties of handleChat
ChatDid(op) == \E k \in 1..Len(chat.ops) : chat.ops[k] = op

\* results.flat(): every match returned by the two namespace queries
AllMatches ==
  LET flat == chat.results[1] \o chat.results[2]
  IN {flat[k] : k \in 1..Len(flat)}

SetMax(S) == CHOOSE x \in S : \A y \in S : y <= x

\* C12: after the merge, no chunk id occurs twice among the merged matches,
\* every returned chunk id occurs, and the score kept for a chunk id is the
\* greatest score of the matches with that id returned by the public and the
\* private namespace query, in whichever order the two queries settled.
C12_MergeKeepsBestScore ==
  ChatDid("merge") =>
    /\ \A k, l \in 1..Len(chat.merged) :
         chat.merged[k].chunkId = chat.merged[l].chunkId => k = l
    /\ {chat.merged[k].chunkId : k \in 1..Len(chat.merged)}
         = {m.chunkId : m \in AllMatches}
    /\ \A k \in 1..Len(chat.merged) :
         chat.merged[k].score =
           SetMax({m.score : m \in {x \in AllMatches : x.chunkId = chat.merged[k].chunkId}})

\* the private namespace settled first, and a chunk id returned by both
\* queries has the lower score in the later position of results.flat()
C12_Witness ==
  /\ ChatDid("merge")
  /\ chat.arrived = <<2, 1>>
  /\ \E a \in 1..Len(chat.results[1]), b \in 1..Len(chat.results[2]) :
       /\ chat.results[1][a].chunkId = chat.results[2][b].chunkId
       /\ chat.results[1][a].score > chat.results[2][b].score

\* K as configured: the number in VECTOR_TOP_K, the default otherwise
ExpectedTopK(value) == IF value = EnvText(<<"2">>) THEN 2 ELSE DefaultTopK

\* C13: the matches kept after the merge are merged matches in descending
\* order of score, there are min(K, number of merged matches) of them, with
\* K = VECTOR_TOP_K or 8 when that is unset, not a number or not positive,
\* and no merged match that is left out has a strictly higher score than
\* one that is kept.
C13_TopKByScore ==
  ChatDid("merge") =>
    LET K == ExpectedTopK(chat.VECTOR_TOP_K)
        top == chat.topMatches
        kept == {top[k] : k \in 1..Len(top)}
        all == {chat.merged[k] : k \in 1..Len(chat.merged)}
    IN /\ Len(top) <= K
       /\ Len(top) = Min(K, Len(chat.merged))
       /\ Cardinality(kept) = Len(top)
       /\ kept \subseteq all
       /\ \A k \in 1..(Len(top) - 1) : top[k].score >= top[k + 1].score
       /\ \A e \in all \ kept : \A t \in kept : e.score <= t.score

\* more matches were merged than K, the Map's order was not the order of
\* the scores, and a match with a lower score was left out
C13_Witness ==
  /\ ChatDid("merge")
  /\ chat.topK < DefaultTopK
  /\ Len(chat.topMatches) = chat.topK
  /\ Len(chat.merged) > chat.topK
  /\ chat.merged[1].score < chat.merged[2].score
  /\ \E k \in 1..Len(chat.merged) :
       chat.merged[k].score < chat.topMatches[chat.topK].score

LastOp == chat.ops[Len(chat.ops)]

\* C14: in grounded mode the request never ends in an error at a namespace
\* query; a namespace whose query failed contributes no match, and when the
\* merge runs the other namespace's query has settled and each of its matches
\* is among the merged matches.
C14_NamespaceFailureTolerated ==
  /\ chat.pc = "failed" => LastOp \notin {"query", "queryUnfiltered"}
  /\ \A j \in 1..2 :
       chat.nsFailed[j] =>
         /\ chat.results[j] = <<>>
         /\ ChatDid("merge") =>
              /\ chat.q[3 - j] = "done"
              /\ \A k \in 1..Len(chat.results[3 - j]) :
                   \E l \in 1..Len(chat.merged) :
                     chat.merged[l].chunkId = chat.results[3 - j][k].chunkId

\* the public query failed first, the private one returned matches, and the
\* request was answered by the model
C14_Witness ==
  /\ chat.pc = "done" /\ chat.status = 200
  /\ chat.nsFailed = <<TRUE, FALSE>>
  /\ chat.arrived = <<1, 2>>
  /\ Len(chat.results[2]) >= 2
  /\ Len(chat.merged) = Len(chat.results[2])
  /\ chat.llmCalls = 1

\* no chunk id of the kept matches is the id of a ChunkRecord
NoneResolves ==
  \A k \in 1..Len(chat.topMatches) :
    \A r \in chunkTable : r.id # chat.topMatches[k].match.chunkId

\* C15: in grounded mode, when no match is left after the merge, or no chunk
\* id of the kept matches resolves to a ChunkRecord, the language model is
\* not called, and the request ends (unless the chunk fetch itself fails)
\* with the fixed 'nothing relevant' answer, no citations and no sources.
C15_NothingRelevant ==
  (chat.mode = "grounded" /\ ChatDid("merge")
     /\ (chat.topMatches = <<>> \/ NoneResolves))
    => /\ chat.llmCalls = 0
       /\ chat.topMatches = <<>> => chat.pc = "done"
       /\ ChatDid("getChunksByIds") => chat.pc \in {"done", "failed"}
       /\ chat.pc = "done" =>
            /\ chat.status = 200
            /\ chat.answer = NothingRelevant
            /\ chat.citations = <<>>
            /\ chat.sources = <<>>

\* every kept match pointed at a deleted chunk, and the request was answered
C15_Witness ==
  /\ chat.pc = "done"
  /\ chat.topMatches # <<>>
  /\ NoneResolves
  /\ ChatDid("getChunksByIds")
  /\ chat.answer = NothingRelevant

\* C16: in freeform mode the citations of the response are empty whatever
\* the language model wrote, and so are the citations of the chat record
\* the request persisted.
C16_FreeformCitationsEmpty ==
  (chat.mode = "freeform" /\ chat.pc = "done")
    => /\ chat.citations = <<>>
       /\ \A k \in 1..Len(messages) : messages[k].citations = <<>>

\* the lines of a citation as written by the model
CitedLines(cit) == <<Get(cit, "lines").items[1].n, Get(cit, "lines").items[2].n>>

\* C17: every citation of a grounded response names the folder, the file and
\* exactly the startLine and endLine of one of the contexts offered to the
\* model.
C17_CitationsMatchContexts ==
  (chat.mode = "grounded" /\ chat.pc = "done")
    => \A k \in 1..Len(chat.citations) :
         \E l \in 1..Len(chat.contexts) :
           /\ CitedLines(chat.citations[k])
                = <<chat.contexts[l].startLine, chat.contexts[l].endLine>>
           /\ Get(chat.citations[k], "file").text = chat.contexts[l].fileName
           /\ Get(chat.citations[k], "folder").text = chat.contexts[l].folderName

\* C18: after a 2xx answer of the language model, whatever its body, the
\* request does not fail at the answer extraction.
C18_ExtractionNeverFails ==
  (chat.llmOut.res = "ok"
     /\ LastOp \in {"generateGeneralAnswer", "generateStructuredAnswer"})
    => chat.pc # "failed"

\* C19: the embedding client returns one vector per input (here one), and
\* throws OpenAIError when the provider answers non-2xx or with zero vectors.
C19_OneVectorPerInput ==
  ChatDid("embed") =>
    /\ chat.raw.ok => chat.raw.n = 1
    /\ (chat.embedOut.res = "non2xx"
          \/ (chat.embedOut.res = "vectors" /\ chat.embedOut.n = 0))
         => (~chat.raw.ok /\ chat.raw.err = "OpenAIError")

\* C20 (chat): when the embedding provider answers non-2xx, the grounded
\* request ends with status 502 and nothing after the embedding ran.
C20_EmbedFailureIs502 ==
  (ChatDid("embed") /\ chat.embedOut.res = "non2xx")
    => /\ chat.pc = "failed" /\ chat.status = 502
       /\ LastOp = "embed"
       /\ chat.llmCalls = 0
       /\ messages = <<>>

\* the request got an answer from the language model and went on to recordChat
ObtainedAnswer == chat.llmCalls > 0 /\ ChatDid("recordChat")

\* C22 (as stated): a chat request that obtained an answer from the language
\* model has persisted exactly one chat record when it ends, and the record
\* holds the question as received, the answer and the citations returned.
C22_Original ==
  ObtainedAnswer
    => /\ chat.pc = "done"
       /\ Len(messages) = 1
       /\ messages[1].question = chat.question
       /\ messages[1].answer = chat.answer
       /\ messages[1].citations = chat.citations

\* C22 (amended): a chat request that responds with success after a
\* language-model call, in either mode, inserted exactly one chat record as
\* its last step before the response; the record holds the caller, the
\* question as received with leading and trailing whitespace removed, and
\* the answer and citations of the response.
C22_RecordsChat ==
  (chat.pc = "done" /\ chat.llmCalls > 0)
    => /\ LastOp = "recordChat"
       /\ chat.inserted = 1
       /\ Len(messages) = 1
       /\ messages[1].user_id = chat.user
       /\ messages[1].question = Trim(chat.question)
       /\ messages[1].answer = chat.answer
       /\ messages[1].citations = chat.citations

\* a grounded request whose question arrived with surrounding blanks was
\* answered with a citation and recorded
C22_Witness ==
  /\ chat.pc = "done" /\ chat.llmCalls > 0 /\ chat.mode = "grounded"
  /\ chat.question # Trim(chat.question)
  /\ chat.citations # <<>>
  /\ Len(messages) = 1
  /\ messages[1].question = <<"/LookUp", " ", "marble">>

\* the chunk of this context is public or owned by user u
VisibleTo(ctx, u) ==
  \E r \in chunkTable :
    /\ r.id = ctx.chunkId
    /\ r.visibility = "public" \/ r.owner_id = u

\* C29: a grounded request queries the two namespaces 'public' and
\* 'user:{caller id}', once each, and every context sent to the language
\* model and every source returned is a chunk that is public or owned by the
\* caller, on either index generation.
C29_OnlyVisibleSources ==
  /\ ChatDid("merge")
       => /\ ChatNamespaces = <<"public", "user:" \o chat.user>>
          /\ Len(chat.arrived) = 2
          /\ {chat.arrived[k] : k \in 1..2} = {1, 2}
  /\ \A k \in 1..Len(chat.contexts) : VisibleTo(chat.contexts[k], chat.user)
  /\ \A k \in 1..Len(chat.sources) : VisibleTo(chat.sources[k], chat.user)

\* ------------------------------------------- properties of the persist phase
\* slot c runs the statement at pc and it succeeds
Succeeds(c, pc) ==
  Acts(c) /\ call[c].kind = "ingest" /\ call[c].pc = pc /\ call'[c].pc # "failed"

\* C23: in the persist phase the insert of chunk i (0-based position in the
\* chunker output) adds one ChunkRecord with chunk_index = i and the chunk's
\* lines and content, after the rows and vectors of chunks 0..i-1 and before
\* any vector of chunk i; the upsert that follows adds one vector whose id,
\* chunkId, startLine and endLine are those of the row just inserted.
C23_PersistOrder ==
  [][\A c \in Calls :
       /\ Succeeds(c, "insertChunk")
            => LET i == call[c].i
                   chunk == call[c].chs[i + 1]
                   new == chunkTable' \ chunkTable
               IN /\ Cardinality(new) = 1
                  /\ \A r \in new :
                       /\ r.chunk_index = i
                       /\ r.id = call'[c].chunkId
                       /\ r.file_id = call[c].file
                       /\ r.start_line = chunk.startLine
                       /\ r.end_line = chunk.endLine
                       /\ r.content = chunk.content
                       /\ \A v \in vectors : v.id # r.id
                  /\ call[c].upserts = i
                  /\ {r.chunk_index : r \in call[c].rows} = 0..(i - 1)
                  /\ vectors' = vectors
       /\ Succeeds(c, "upsert")
            => LET new == vectors' \ vectors
                   last == {r \in call[c].rows : r.chunk_index = call[c].i}
               IN /\ Cardinality(new) = 1
                  /\ Cardinality(last) = 1
                  /\ \A v \in new, r \in last :
                       /\ v.id = r.id
                       /\ v.metadata.chunkId = r.id
                       /\ v.metadata.startLine = r.start_line
                       /\ v.metadata.endLine = r.end_line
                  /\ {r.chunk_index : r \in call[c].rows} = 0..call[c].i
                  /\ chunkTable' = chunkTable]_vars

\* an ingestion of the two-chunk file has stored row 0, vector 0, row 1 and
\* vector 1 in this order
C23_Witness ==
  \E c \in Calls :
    /\ call[c].kind = "ingest" /\ call[c].pc = "done" /\ call[c].upserts = 2
    /\ \E k \in 1..Len(call[c].ops) :
         /\ k + 3 <= Len(call[c].ops)
         /\ SubSeq(call[c].ops, k, k + 3)
              = <<"insertChunk", "upsert", "insertChunk", "upsert">>
    /\ {r.chunk_index : r \in call[c].rows} = {0, 1}
    /\ \A r \in call[c].rows : \E v \in vectors : v.id = r.id

\* C24: an ingestion that failed at a statement (file lookup, blob read and
\* chunking, embedding and count check, chunk select or delete, vector
\* delete, chunk insert, vector upsert, status update) runs no statement
\* afterwards (its slot is next used by a new request); the status update
\* is reached only by a call none of whose statements failed, with one row
\* inserted and one vector upserted for every chunk, and only that statement
\* sets the file status to 'ready'.
C24_FailureAborts ==
  [][\A c \in Calls :
       /\ (call[c].kind = "ingest" /\ call[c].pc = "failed")
            => /\ ~Acts(c)
               /\ \/ call'[c].ops = <<>>
                  \/ /\ call'[c].ops = call[c].ops
                     /\ call'[c].pc = "failed"
                     /\ call'[c].status = call[c].status
       /\ (Acts(c) /\ call[c].kind = "ingest")
            => /\ call[c].err = "" /\ call[c].status = 0
               /\ (call'[c].pc = "failed")
                    => /\ call'[c].status >= 400
                       /\ call'[c].ops[Len(call'[c].ops)] = call[c].pc
               /\ (call[c].pc = "updateStatus" \/ files' # files)
                    => /\ call[c].pc = "updateStatus"
                       /\ call[c].upserts = Len(call[c].chs)
                       /\ Cardinality(call[c].rows) = Len(call[c].chs)
                       /\ call[c].i = Len(call[c].chs)]_vars

\* an ingestion of the two-chunk file failed at its second upsert: two rows
\* and one vector were written, the status was not set
C24_Witness ==
  \E c \in Calls :
    /\ call[c].kind = "ingest" /\ call[c].pc = "failed"
    /\ call[c].ops[Len(call[c].ops)] = "upsert"
    /\ Cardinality(call[c].rows) = 2 /\ call[c].upserts = 1
    /\ ~Did(call[c], "updateStatus")
    /\ files[call[c].file].status # "ready"

\* ------------------------------------ properties of concurrent ingestions
\* the DELETE of call c ran before every insert of call d (chunk ids are drawn
\* in increasing order)
DeletedBeforeInserts(c, d) == \A id \in call[d].written : id >= call[c].delAt

\* c and d are two successful ingestions of one file, each of which ran its
\* delete step before the other inserted anything
BothDeletedFirst(c, d) ==
  /\ c # d
  /\ call[c].kind = "ingest" /\ call[d].kind = "ingest"
  /\ call[c].file = call[d].file
  /\ call[c].pc = "done" /\ call[d].pc = "done"
  /\ DeletedBeforeInserts(c, d) /\ DeletedBeforeInserts(d, c)

\* C27: ingestions of one file exclude each other in no way: when two of them
\* ran their delete steps before either inserted and both succeeded, the
\* ChunkRecords of the file are those of both calls, two for every
\* chunk_index, and the index holds the vectors of both calls (the witness
\* shows such a run).
C27_BothSetsRemain ==
  \A c, d \in Calls :
    BothDeletedFirst(c, d)
      => LET f == call[c].file
             rows == RowsOf(chunkTable, f)
             n == Len(call[c].chs)
         IN /\ rows = call[c].rows \cup call[d].rows
            /\ Cardinality(rows) = 2 * n
            /\ \A k \in 0..(n - 1) :
                 Cardinality({r \in rows : r.chunk_index = k}) = 2
            /\ call[c].written \cup call[d].written
                 \subseteq {v.id : v \in VectorsOfFile(vectors, f)}

\* two overlapping ingestions of the two-chunk file f1 both answered 200 and
\* f1 is left with four ChunkRecords and four vectors
C27_Witness ==
  \E c, d \in Calls :
    /\ BothDeletedFirst(c, d)
    /\ call[c].file = "f1"
    /\ call[c].overlapped /\ call[d].overlapped
    /\ call[c].status = 200 /\ call[d].status = 200
    /\ Cardinality(RowsOf(chunkTable, "f1")) = 4
    /\ Cardinality(VectorsOfFile(vectors, "f1")) = 4
    /\ files["f1"].status = "ready"

\* every request so far ran alone (the second slot was never needed) and
\* answered with success, and none is in flight
OneAtATimeAllOk ==
  /\ call[1].pc = "done" /\ call[1].allOk
  /\ \A c \in Calls \ {1} : call[c].pc = "idle"

\* C30: on a generation-A index, after ingestions and file deletions that ran
\* one at a time and all succeeded, the vector ids in the index are the ids of
\* the ChunkRecords, every vector lies in the namespace given by the
\* visibility and owner of its file, and a deleted file has no ChunkRecord
\* and no vector.
C30_IndexMatchesStore ==
  (OneAtATimeAllOk /\ ~isV2)
    => /\ {v.id : v \in vectors} = {r.id : r \in chunkTable}
       /\ \A v \in vectors :
            /\ files[v.metadata.fileId] # NoFile
            /\ v.ns = partitionForVisibility(files[v.metadata.fileId].visibility,
                                             files[v.metadata.fileId].owner_id)
            /\ v.ns \in {"public", "user:" \o FileOwner(v.metadata.fileId)}
       /\ \A f \in Files :
            files[f] = NoFile
              => RowsOf(chunkTable, f) = {} /\ VectorsOfFile(vectors, f) = {}

\* on generation A the private file f1 was ingested and then deleted by its
\* owner, one request after the other
C30_Witness ==
  /\ OneAtATimeAllOk /\ ~isV2
  /\ started = 2
  /\ call[1].kind = "delete" /\ call[1].file = "f1" /\ call[1].status = 200
  /\ Cardinality(call[1].existing) = 2
  /\ Did(call[1], "deleteVectors")
  /\ files["f1"] = NoFile

\* ---------------------------------------- properties of the filled store
\* chunkText, for options 0 <= overlap < chunkSize, returns no chunk for the
\* empty source and at least one chunk for every other source
ChunksIffNonEmpty ==
  \A s \in SeqsUpTo(MaxLen), cs \in 1..MaxChunkSize :
    \A ov \in 0..(cs - 1) :
      (Len(ChunkText(s, cs, ov)) = 0) <=> (s = <<>>)

\* C21: chunkText returns zero chunks exactly for the zero-length source; an
\* ingestion that reads an empty source fails at that step with status 400
\* ('No content found to ingest'), its only steps are the file lookup and the
\* blob read (no embedding call), and no step of it changes the chunk rows,
\* the vectors or the file rows.
C21_EmptySourceRejected ==
  /\ ChunksIffNonEmpty
  /\ [][\A c \in Calls :
          (/\ Acts(c) /\ call[c].kind = "ingest"
           /\ blobs[call[c].file] = EmptyText)
            => /\ call[c].pc \in {"getFile", "getObject"}
               /\ call[c].pc = "getObject"
                    => /\ call'[c].pc = "failed" /\ call'[c].status = 400
                       /\ call'[c].err = "NoContent"
                       /\ ~Did(call'[c], "embed")
                       /\ NoWrites(call'[c])
               /\ UNCHANGED <<chunkTable, vectors, files>>]_vars

\* the owner's ingestion of the empty upload f2 has been rejected
C21_Witness ==
  \E c \in Calls :
    /\ call[c].kind = "ingest" /\ call[c].file = "f2" /\ call[c].user = "u2"
    /\ call[c].pc = "failed" /\ call[c].err = "NoContent"
    /\ blobs["f2"] = EmptyText
    /\ Len(ChunkText(blobs["f2"], CHUNK_SIZE, CHUNK_OVERLAP)) = 0

\* chunk ids of the stored vectors that pass the metadata filter of ns
FilteredIds(ns) ==
  {v.id : v \in {w \in vectors : MatchesFilter(w.metadata, filterFromNamespace(ns))}}

\* C25: on a generation-B index the first statement of queryNamespace is the
\* filtered query; the unfiltered query is issued at most once, directly
\* after it, exactly when the filtered query matched nothing and the filter
\* of the namespace is non-empty; a call whose filtered query matched
\* something issues one query and returns only vectors that pass the filter.
C25_RetryRule ==
  [][\A c \in Calls :
       (Acts(c) /\ call[c].kind = "query" /\ isV2)
         => LET ns == call[c].ns
                retried == call'[c].pc = "retry"
            IN /\ call[c].pc = "query"
                    => /\ call'[c].ops = <<"query">>
                       /\ call'[c].queries = 1
                       /\ retried <=> (/\ FilteredIds(ns) = {}
                                        /\ DOMAIN filterFromNamespace(ns) # {})
                       /\ ~retried
                            => /\ call'[c].pc = "done"
                               /\ {m.chunkId : m \in call'[c].matches}
                                    \subseteq FilteredIds(ns)
                               /\ (FilteredIds(ns) # {}) => (call'[c].matches # {})
               /\ call[c].pc # "query"
                    => /\ call[c].pc = "retry"
                       /\ call'[c].ops = <<"query", "queryUnfiltered">>
                       /\ call'[c].queries = 2
                       /\ call'[c].pc = "done"]_vars

\* on generation B one query of 'user:u1' was answered by the filtered query
\* alone, and one query of 'public' was retried without the filter
C25_Witness ==
  /\ isV2
  /\ \E c, d \in Calls :
       /\ call[c].kind = "query" /\ call[c].pc = "done" /\ call[c].ns = "user:u1"
       /\ call[c].ops = <<"query">> /\ call[c].matches # {}
       /\ call[d].kind = "query" /\ call[d].pc = "done" /\ call[d].ns = "public"
       /\ call[d].ops = <<"query", "queryUnfiltered">> /\ call[d].matches # {}

\* a set of ChunkRecords of f1 that is one complete output of the chunker
CompleteSet(rows) ==
  /\ Cardinality(rows) = Len(StoredChunks("f1"))
  /\ Tuples(rows) = Tuples(StoredRows("f1"))

\* the only requests so far are one ingestion of f1 by its owner, which is
\* in flight, and queries
ReingestInFlight ==
  /\ \E c \in Calls : /\ call[c].kind = "ingest" /\ call[c].file = "f1"
                       /\ call[c].user = "u1" /\ Running(c)
  /\ \A c \in Calls : call[c].kind \in {"none", "ingest", "query"}
  /\ Cardinality({c \in Calls : call[c].kind = "ingest"}) = 1

\* C26: a query of the owner's namespace that is answered while the
\* re-ingestion of the ingested file f1 is in flight reads a store in which
\* the ChunkRecords of f1 are one complete chunk set (the old one or the new
\* one) and the vectors of f1 are the vectors of exactly these records.
C26_AtomicReplace ==
  [][\A d \in Calls :
       (/\ Acts(d) /\ call[d].kind = "query" /\ call[d].ns = "user:u1"
        /\ call'[d].pc = "done" /\ ReingestInFlight)
         => /\ CompleteSet(RowsOf(chunkTable, "f1"))
            /\ {v.id : v \in VectorsOfFile(vectors, "f1")}
                 = {r.id : r \in RowsOf(chunkTable, "f1")}]_vars

\* the statements of an ingestion that fail after storage was modified
ModifyingSteps == {"deleteVectors", "insertChunk", "upsert"}

\* C28: when an ingestion succeeds that retries an ingestion of the same file
\* which failed at its vector delete, a chunk insert or a vector upsert (no
\* other request on the file in between or in flight), the ChunkRecords of
\* the file are exactly the rows the retry wrote and the vectors of the file
\* are exactly the vectors the retry wrote.
C28_RetryCleansUp ==
  \A c \in Calls :
    (/\ call[c].kind = "ingest" /\ call[c].pc = "done"
     /\ ~call[c].overlapped /\ ~call[c].stale
     /\ call[c].retryOf \in ModifyingSteps)
      => /\ RowsOf(chunkTable, call[c].file) = call[c].rows
         /\ {v.id : v \in VectorsOfFile(vectors, call[c].file)} = call[c].written

====
